---- MODULE Spec2Model ----
(***************************************************************************)
(* Verification model of the modular reverse proxy.                        *)
(*                                                                         *)
(* The module is organised by component.  Each component has its own       *)
(* variables, its own initial predicate and its own actions; a component   *)
(* specification is the conjunction of every initial predicate with the    *)
(* next-state relation of that component, all other variables unchanged.   *)
(*                                                                         *)
(*   SpecPipeline  Pipeline registration, sort and Pipeline::handle        *)
(*   SpecCB        circuit breaker, requests interleaved at atomic steps   *)
(*   SpecRL        token-bucket rate limiter                               *)
(*   SpecCache     response cache                                          *)
(*   SpecServer    accept loops, worker pool, telemetry, shutdown          *)
(*   SpecPool      backend connection pool                                 *)
(*   SpecLB        round-robin load balancer and the health prober         *)
(*   SpecMetrics   latency counters of the telemetry                       *)
(*   SpecProxy     proxy forwarder and the pooled backend streams          *)
(*   SpecReader    read_http_message on one source                         *)
(***************************************************************************)
EXTENDS Integers, Sequences, FiniteSets, TLC

(***************************************************************************)
(* Generic helpers.                                                        *)
(***************************************************************************)
Range(s) == {s[i] : i \in 1..Len(s)}

Min(a, b) == IF a <= b THEN a ELSE b

(***************************************************************************)
(*                              PIPELINE                                   *)
(***************************************************************************)
VARIABLES
    mods,        \* Pipeline.mods: Vec<(i32, Box<dyn Module>)>, in vector order;
                 \* a module is its name(), its identity, and whether its
                 \* overrides() has its own name
    overridden,  \* Pipeline.overridden: HashSet<String>
    raw,         \* Pipeline.raw is Some(_)
    phase,       \* "registering" until main calls sort(), then "serving"
    nextUid,     \* number of modules pushed so far (identity of a Box)
    dupAdd,      \* history: add was called with a name that was installed
    calls,       \* module invocations of the last Pipeline::handle, in order
    lastOut,     \* what each module's request handler answered in that call
    resp         \* response returned by the last Pipeline::handle

pipeVars == <<mods, overridden, raw, phase, nextUid, dupAdd, calls, lastOut, resp>>

\* Bounds of the pipeline model.
MaxMods == 3
MaxAdds == 4

\* Module names used for registration, priorities passed to add_with_priority.
Names == {"rate_limiter", "cache", "echo"}
PrioSet == {30, 75}

\* Option<HttpResponse> returned by a module's request handler.
NoResponse == "None"
Outcomes == {"None", "Some"}

\* The response a module produces (its content plays no part in the pipeline).
Produced == [status |-> 200, body |-> "module"]

\* HttpResponse::error(500, "No handler")
Sentinel == [status |-> 500, body |-> "No handler"]

default_priority(name) ==
    CASE name = "active_health" -> 10
      [] name = "request_id" -> 20
      [] name = "rate_limiter" -> 30
      [] name = "circuit_breaker" -> 40
      [] name = "health_check" -> 50
      [] name = "metrics_exporter" -> 60
      [] name = "admin_api" -> 70
      [] name = "cache" -> 80
      [] name = "url_rewriter" -> 90
      [] name = "compression" -> 100
      [] name = "load_balancer" -> 110
      [] name = "proxy_core" -> 120
      [] name = "raw_tcp" -> 130
      [] OTHER -> 75

RetainAll(ms, names) == ms

\* self.mods.retain(|(_, m)| m.name() != name)
Retain(ms, names) ==
    LET Keep(e) == e.name \notin names IN SelectSeq(ms, Keep)

has_module_bad(ms, name) == FALSE

has_module(ms, name) == \E i \in 1..Len(ms) : ms[i].name = name

PipeInit ==
    /\ mods = <<>>
    /\ overridden = {}
    /\ raw = FALSE
    /\ phase = "registering"
    /\ nextUid = 0
    /\ dupAdd = FALSE
    /\ calls = <<>>
    /\ lastOut = <<>>
    /\ resp = Sentinel

\* Pipeline::override_module(name)
override_module(name) ==
    /\ phase = "registering"
    /\ overridden' = overridden \cup {name}
    /\ mods' = Retain(mods, {name})
    /\ UNCHANGED <<raw, phase, nextUid, dupAdd, calls, lastOut, resp>>

\* Pipeline::add_with_priority(m, priority), m.name() = name, m.overrides() = ovr.
\* The overrides are applied one after the other, then m is pushed.
add_with_priority(name, priority, ovr) ==
    /\ phase = "registering"
    /\ nextUid < MaxAdds
    /\ Len(mods) < MaxMods
    /\ IF name \in overridden
       THEN UNCHANGED <<mods, overridden, nextUid, dupAdd>>
       ELSE /\ overridden' = overridden \cup ovr
            /\ mods' = Append(Retain(mods, ovr),
                              [name |-> name, prio |-> priority, uid |-> nextUid + 1,
                               selfOverride |-> name \in ovr])
            /\ nextUid' = nextUid + 1
            /\ dupAdd' = (dupAdd \/ name \in {e.name : e \in Range(Retain(mods, ovr))})
    /\ UNCHANGED <<raw, phase, calls, lastOut, resp>>

\* Pipeline::add(m)
add(name, ovr) == add_with_priority(name, default_priority(name), ovr)

\* Pipeline::set_raw_handler, as called by raw_tcp::register after its overrides.
RAW_OVERRIDES == {"proxy_core", "load_balancer", "health_check", "url_rewriter", "cache"}

raw_tcp_register ==
    /\ phase = "registering"
    /\ raw = FALSE
    /\ overridden' = overridden \cup RAW_OVERRIDES
    /\ mods' = Retain(mods, RAW_OVERRIDES)
    /\ raw' = TRUE
    /\ UNCHANGED <<phase, nextUid, dupAdd, calls, lastOut, resp>>

\* One definition of script::load_script_modules: skipped when a module of that
\* name is installed, else its overrides are applied and it is added when it
\* has request or response handlers.
load_script_module(name, priority, ovr, hasHandlers) ==
    /\ phase = "registering"
    /\ nextUid < MaxAdds
    /\ Len(mods) < MaxMods
    /\ IF has_module(mods, name)
       THEN UNCHANGED <<mods, overridden, nextUid>>
       ELSE LET ov1 == overridden \cup ovr
                ms1 == Retain(mods, ovr)
            IN  /\ overridden' = ov1
                /\ IF hasHandlers /\ name \notin ov1
                   THEN /\ mods' = Append(ms1, [name |-> name, prio |-> priority,
                                                uid |-> nextUid + 1,
                                                selfOverride |-> name \in ovr])
                        /\ nextUid' = nextUid + 1
                   ELSE /\ mods' = ms1
                        /\ nextUid' = nextUid
    /\ UNCHANGED <<raw, phase, dupAdd, calls, lastOut, resp>>

RECURSIVE InsertByKeyUnstable(_, _)
InsertByKeyUnstable(sorted, e) ==
    IF sorted = <<>> THEN <<e>>
    ELSE IF sorted[Len(sorted)].prio < e.prio
         THEN Append(sorted, e)
         ELSE Append(InsertByKeyUnstable(SubSeq(sorted, 1, Len(sorted) - 1), e),
                     sorted[Len(sorted)])

\* Vec::sort_by_key(|(p, _)| *p): a stable sort, modelled as insertion sort that
\* places each element after every element whose key is not greater.
RECURSIVE InsertByKey(_, _)
InsertByKey(sorted, e) ==
    IF sorted = <<>> THEN <<e>>
    ELSE IF sorted[Len(sorted)].prio <= e.prio
         THEN Append(sorted, e)
         ELSE Append(InsertByKey(SubSeq(sorted, 1, Len(sorted) - 1), e),
                     sorted[Len(sorted)])

RECURSIVE SortByKey(_)
SortByKey(s) ==
    IF s = <<>> THEN <<>>
    ELSE InsertByKey(SortByKey(SubSeq(s, 1, Len(s) - 1)), s[Len(s)])

\* Pipeline::sort(), called by main once registration is over.
sort ==
    /\ phase = "registering"
    /\ mods' = SortByKey(mods)
    /\ phase' = "serving"
    /\ UNCHANGED <<overridden, raw, nextUid, dupAdd, calls, lastOut, resp>>

\* Request side of Pipeline::handle: modules are visited in vector order from
\* index i; the loop breaks at the first one whose handler returns Some.
RECURSIVE RequestSide(_, _, _)
RequestSide(ms, out, i) ==
    IF i > Len(ms) THEN [log |-> <<>>, resp_idx |-> 0]
    ELSE IF out[i] # NoResponse
         THEN [log |-> <<[op |-> "handle", idx |-> i]>>, resp_idx |-> i]
         ELSE LET r == RequestSide(ms, out, i + 1)
              IN  [log |-> <<[op |-> "handle", idx |-> i]>> \o r.log,
                   resp_idx |-> r.resp_idx]

\* Response side: self.mods[..limit].iter().rev()
RECURSIVE ResponseSide(_)
ResponseSide(limit) ==
    IF limit = 0 THEN <<>>
    ELSE <<[op |-> "on_response", idx |-> limit]>> \o ResponseSide(limit - 1)

LimitAll(ms, resp_idx) == Len(ms)

\* let limit = resp_idx.map(|i| i + 1).unwrap_or(self.mods.len())
Limit(ms, resp_idx) == IF resp_idx # 0 THEN resp_idx ELSE Len(ms)

ResponseProduced(resp_idx) == Produced

\* resp starts as the sentinel and is replaced by the first Some(r).
Response(resp_idx) == IF resp_idx # 0 THEN Produced ELSE Sentinel

\* Pipeline::handle(r, c); out[i] is what module i answers to this request.
handle(out) ==
    /\ phase = "serving"
    /\ LET rs == RequestSide(mods, out, 1)
           limit == Limit(mods, rs.resp_idx)
       IN  /\ calls' = rs.log \o ResponseSide(limit)
           /\ resp' = Response(rs.resp_idx)
    /\ lastOut' = out
    /\ UNCHANGED <<mods, overridden, raw, phase, nextUid, dupAdd>>

PipeNext ==
    \/ \E n \in Names, o \in {{}, {"cache"}, {"echo"}} : add(n, o)
    \/ \E n \in Names, p \in PrioSet : add_with_priority(n, p, {})
    \/ \E n \in Names : override_module(n)
    \/ \E n \in Names, p \in PrioSet, o \in {{}, {"cache"}}, h \in BOOLEAN :
          load_script_module(n, p, o, h)
    \/ raw_tcp_register
    \/ sort
    \/ \E out \in [1..Len(mods) -> Outcomes] : handle(out)

(***************************************************************************)
(*                           CIRCUIT BREAKER                               *)
(*                                                                         *)
(* Requests run on concurrent workers and interleave at every atomic       *)
(* operation and lock acquisition of CircuitBreaker::handle and            *)
(* CircuitBreaker::on_response.                                            *)
(***************************************************************************)
VARIABLES
    cbState,     \* CircuitBreaker.state: AtomicU8
    failures,    \* CircuitBreaker.failures: AtomicU64
    opened_at,   \* CircuitBreaker.opened_at: Mutex<Instant>
    cbNow,       \* the clock, in seconds
    cbTrips,     \* metrics CB_TRIPS
    cbReq,       \* per worker: position in the code and locals of its request
    openAdmits,  \* history: requests let through having observed OPEN, since the last trip
    probeWins,   \* history: successful OPEN -> HALF_OPEN exchanges since the last trip
    tripAt,      \* history: instant of the last exchange to OPEN, NoTrip before the first
    tripFrom     \* history: the state that exchange found

cbVars == <<cbState, failures, opened_at, cbNow, cbTrips, cbReq,
            openAdmits, probeWins, tripAt, tripFrom>>

STATE_CLOSED == 0
STATE_OPEN == 1
STATE_HALF_OPEN == 2

\* Configuration of the breaker and bounds of its model.
CbThreshold == 2
CbRecovery == 2
CbMaxClock == 3
CbMaxFailures == 3
CbMaxTrips == 2

\* The workers that handle requests concurrently.
CbThreads == {"w1", "w2"}

\* Statuses the modules behind the breaker answer with.
CbBackendStatuses == {200, 500}

NoTrip == -1

\* Locals of a request: the state and elapsed time it read, the response
\* status, the count its fetch_add returned; due records that, when handle let
\* it through, the breaker had tripped less than the recovery time before.
CbIdle == [pc |-> "idle", st |-> STATE_CLOSED, elapsed |-> 0, status |-> 0,
           count |-> 0, due |-> FALSE, dueHalf |-> FALSE]

\* circuit_breaker::register
CBInit ==
    /\ cbState = STATE_CLOSED
    /\ failures = 0
    /\ opened_at = 0
    /\ cbNow = 0
    /\ cbTrips = 0
    /\ cbReq = [t \in CbThreads |-> CbIdle]
    /\ openAdmits = 0
    /\ probeWins = 0
    /\ tripAt = NoTrip
    /\ tripFrom = STATE_CLOSED

CompareExchangeBlind(current, expected, new) == [ok |-> TRUE, val |-> new]

\* AtomicU8::compare_exchange(expected, new) on a cell holding current
CompareExchange(current, expected, new) ==
    IF current = expected THEN [ok |-> TRUE, val |-> new]
    ELSE [ok |-> FALSE, val |-> current]

RecoveryElapsedLate(elapsed) == elapsed > CbRecovery

\* elapsed >= Duration::from_secs(self.recovery_secs)
RecoveryElapsed(elapsed) == elapsed >= CbRecovery

\* The last exchange to OPEN is less than the recovery time ago.
TrippedRecently == tripAt # NoTrip /\ cbNow - tripAt < CbRecovery

\* handle: let state = self.state.load(Acquire); CLOSED and HALF_OPEN return None
CbHandleLoad(t) ==
    /\ cbReq[t].pc \in {"idle", "done"}
    /\ failures < CbMaxFailures
    /\ cbTrips < CbMaxTrips
    /\ cbReq' = [cbReq EXCEPT ![t] =
                    [CbIdle EXCEPT !.pc = IF cbState = STATE_OPEN THEN "h_open" ELSE "backend",
                                   !.st = cbState,
                                   !.due = (cbState # STATE_OPEN /\ TrippedRecently),
                                   !.dueHalf = (cbState # STATE_OPEN /\ TrippedRecently
                                                /\ tripFrom = STATE_HALF_OPEN)]]
    /\ UNCHANGED <<cbState, failures, opened_at, cbNow, cbTrips,
                   openAdmits, probeWins, tripAt, tripFrom>>

\* handle, STATE_OPEN: elapsed is read under the opened_at lock; before the
\* recovery time the request is rejected with 503 "Circuit breaker open"
CbHandleElapsed(t) ==
    /\ cbReq[t].pc = "h_open"
    /\ LET elapsed == cbNow - opened_at
       IN  IF RecoveryElapsed(elapsed)
           THEN cbReq' = [cbReq EXCEPT ![t].pc = "h_cas", ![t].elapsed = elapsed]
           ELSE cbReq' = [cbReq EXCEPT ![t].pc = "r_load", ![t].elapsed = elapsed,
                                       ![t].status = 503]
    /\ UNCHANGED <<cbState, failures, opened_at, cbNow, cbTrips, openAdmits, probeWins, tripAt, tripFrom>>

\* handle, STATE_OPEN after the recovery time: compare_exchange(OPEN, HALF_OPEN),
\* then None whatever the exchange returned
CbHandleProbe(t) ==
    /\ cbReq[t].pc = "h_cas"
    /\ LET x == CompareExchange(cbState, STATE_OPEN, STATE_HALF_OPEN)
       IN  /\ cbState' = x.val
           /\ probeWins' = IF x.ok THEN probeWins + 1 ELSE probeWins
    /\ openAdmits' = openAdmits + 1
    /\ cbReq' = [cbReq EXCEPT ![t].pc = "backend", ![t].due = TrippedRecently,
                              ![t].dueHalf = (TrippedRecently
                                              /\ tripFrom = STATE_HALF_OPEN)]
    /\ UNCHANGED <<failures, opened_at, cbNow, cbTrips, tripAt, tripFrom>>

\* The modules after the breaker answer the admitted request.
CbBackend(t, status) ==
    /\ cbReq[t].pc = "backend"
    /\ cbReq' = [cbReq EXCEPT ![t].pc = "r_load", ![t].status = status]
    /\ UNCHANGED <<cbState, failures, opened_at, cbNow, cbTrips,
                   openAdmits, probeWins, tripAt, tripFrom>>

\* on_response: let state = self.state.load(Acquire)
CbResponseLoad(t) ==
    /\ cbReq[t].pc = "r_load"
    /\ cbReq' = [cbReq EXCEPT ![t].st = cbState,
                              ![t].pc = IF cbReq[t].status >= 500 THEN "r_count"
                                        ELSE "r_clear"]
    /\ UNCHANGED <<cbState, failures, opened_at, cbNow, cbTrips,
                   openAdmits, probeWins, tripAt, tripFrom>>

ThresholdReachedEarly(count) == count >= CbThreshold - 1

\* count >= self.threshold
ThresholdReached(count) == count >= CbThreshold

\* on_response, status >= 500: count = failures.fetch_add(1) + 1
CbResponseCount(t) ==
    /\ cbReq[t].pc = "r_count"
    /\ failures' = failures + 1
    /\ cbReq' = [cbReq EXCEPT ![t].count = failures + 1,
                              ![t].pc = IF cbReq[t].st = STATE_HALF_OPEN THEN "r_cas_half"
                                        ELSE IF ThresholdReached(failures + 1)
                                             THEN "r_cas_closed"
                                        ELSE "done"]
    /\ UNCHANGED <<cbState, opened_at, cbNow, cbTrips, openAdmits, probeWins, tripAt, tripFrom>>

\* on_response: compare_exchange(HALF_OPEN, OPEN) or compare_exchange(CLOSED, OPEN)
CbResponseTrip(t) ==
    /\ cbReq[t].pc \in {"r_cas_half", "r_cas_closed"}
    /\ LET from == IF cbReq[t].pc = "r_cas_half" THEN STATE_HALF_OPEN ELSE STATE_CLOSED
           x == CompareExchange(cbState, from, STATE_OPEN)
       IN  /\ cbState' = x.val
           /\ cbReq' = [cbReq EXCEPT ![t].pc = IF x.ok THEN "r_opened" ELSE "done"]
           /\ openAdmits' = IF x.ok THEN 0 ELSE openAdmits
           /\ probeWins' = IF x.ok THEN 0 ELSE probeWins
           /\ tripAt' = IF x.ok THEN cbNow ELSE tripAt
           /\ tripFrom' = IF x.ok THEN from ELSE tripFrom
    /\ UNCHANGED <<failures, opened_at, cbNow, cbTrips>>

\* on_response after a successful exchange to OPEN: *opened_at = Instant::now()
\* under the lock, then metrics::inc_cb_trips()
CbResponseOpened(t) ==
    /\ cbReq[t].pc = "r_opened"
    /\ opened_at' = cbNow
    /\ cbTrips' = cbTrips + 1
    /\ cbReq' = [cbReq EXCEPT ![t].pc = "done"]
    /\ UNCHANGED <<cbState, failures, cbNow, openAdmits, probeWins, tripAt, tripFrom>>

\* on_response, status < 500: self.failures.store(0)
CbResponseClear(t) ==
    /\ cbReq[t].pc = "r_clear"
    /\ failures' = 0
    /\ cbReq' = [cbReq EXCEPT ![t].pc = "r_close"]
    /\ UNCHANGED <<cbState, opened_at, cbNow, cbTrips, openAdmits, probeWins, tripAt, tripFrom>>

\* on_response, status < 500: self.state.store(STATE_CLOSED)
CbResponseClose(t) ==
    /\ cbReq[t].pc = "r_close"
    /\ cbState' = STATE_CLOSED
    /\ cbReq' = [cbReq EXCEPT ![t].pc = "done"]
    /\ UNCHANGED <<failures, opened_at, cbNow, cbTrips, openAdmits, probeWins, tripAt, tripFrom>>

\* One second passes.
CbTick ==
    /\ cbNow < CbMaxClock
    /\ cbNow' = cbNow + 1
    /\ UNCHANGED <<cbState, failures, opened_at, cbTrips, cbReq,
                   openAdmits, probeWins, tripAt, tripFrom>>

CBNext ==
    \/ \E t \in CbThreads : CbHandleLoad(t)
    \/ \E t \in CbThreads : CbHandleElapsed(t)
    \/ \E t \in CbThreads : CbHandleProbe(t)
    \/ \E t \in CbThreads, status \in CbBackendStatuses : CbBackend(t, status)
    \/ \E t \in CbThreads : CbResponseLoad(t)
    \/ \E t \in CbThreads : CbResponseCount(t)
    \/ \E t \in CbThreads : CbResponseTrip(t)
    \/ \E t \in CbThreads : CbResponseOpened(t)
    \/ \E t \in CbThreads : CbResponseClear(t)
    \/ \E t \in CbThreads : CbResponseClose(t)
    \/ CbTick

(***************************************************************************)
(*                             RATE LIMITER                                *)
(*                                                                         *)
(* RateLimit::handle runs under the bucket-map mutex, so a call is one     *)
(* step.  Time is in whole seconds; with integer rates the token counts    *)
(* stay integers.  Besides the client addresses that are followed one by   *)
(* one, a crowd of other addresses fills the map: their buckets are        *)
(* counted, all created at the instant crowdLast.                          *)
(***************************************************************************)
VARIABLES
    rlCfg,       \* RateLimit.rps and RateLimit.burst, once registered
    buckets,     \* RateLimit.buckets, for the followed client addresses
    crowd,       \* number of buckets of other client addresses
    crowdLast,   \* Bucket.last of those buckets
    rlNow,       \* the clock, in seconds
    rlLast,      \* client address and answer of the last request, and whether
                 \* the cleanup ran in it
    win,         \* history: a window opened for one address, and the
                 \* requests of that address let through since
    life,        \* history, per followed address with a bucket: the instant the
                 \* bucket was inserted and the requests let through since
    alone        \* history, per followed address: the bucket its own requests
                 \* alone produce, no cleanup ever running

rlVars == <<rlCfg, buckets, crowd, crowdLast, rlNow, rlLast, win, life, alone>>

BUCKET_CLEANUP_THRESHOLD == 10000
BUCKET_STALE_SECS == 300

\* Configurations and client addresses of the model, and bounds of its clock:
\* requests arrive within RlMaxFine seconds after a multiple of BUCKET_STALE_SECS.
RpsSet == {0, 1}
BurstSet == {1, 2}
RlIps == {"10.0.0.1", "10.0.0.2"}
RlMaxClock == 301
RlMaxFine == 1

NoBucket == [present |-> FALSE, tokens |-> 0, last |-> 0]
NoWindow == [ip |-> "none", start |-> 0, count |-> 0]
NoLife == [born |-> 0, passed |-> 0]

RLInit ==
    /\ rlCfg = [registered |-> FALSE, rps |-> 0, burst |-> 0]
    /\ buckets = [ip \in RlIps |-> NoBucket]
    /\ crowd = 0
    /\ crowdLast = 0
    /\ rlNow = 0
    /\ rlLast = [ip |-> "none", admitted |-> FALSE, cleaned |-> FALSE, solo |-> FALSE]
    /\ win = NoWindow
    /\ life = [ip \in RlIps |-> NoLife]
    /\ alone = [ip \in RlIps |-> NoBucket]

\* rate_limiter::register with requests_per_second = r and burst = b
rate_limiter_register(r, b) ==
    /\ ~rlCfg.registered
    /\ rlCfg' = [registered |-> TRUE, rps |-> r, burst |-> b]
    /\ UNCHANGED <<buckets, crowd, crowdLast, rlNow, rlLast, win, life, alone>>

\* bs.len()
BucketCount(bs, n) == Cardinality({ip \in RlIps : bs[ip].present}) + n

IsFreshNever(last, now) == FALSE

\* now.duration_since(b.last).as_secs_f64() < BUCKET_STALE_SECS
IsFresh(last, now) == now - last < BUCKET_STALE_SECS

\* bs.retain(|_, b| ...) on the followed buckets
RetainFresh(bs, now) ==
    [ip \in RlIps |-> IF bs[ip].present /\ IsFresh(bs[ip].last, now)
                      THEN bs[ip] ELSE NoBucket]

RefillUncapped(tokens, elapsed, rps, burst) == tokens + elapsed * rps

\* (b.tokens + elapsed * self.rps as f64).min(self.burst as f64)
Refill(tokens, elapsed, rps, burst) == Min(tokens + elapsed * rps, burst)

NewBucketShort(burst, now) == [present |-> TRUE, tokens |-> burst - 1, last |-> now]

\* Bucket { tokens: self.burst as f64, last: Instant::now() }
NewBucket(burst, now) == [present |-> TRUE, tokens |-> burst, last |-> now]

\* One request on bucket b0 (absent: inserted first): the refill, the test
\* b.tokens >= 1.0 and the bucket left behind.
TakeToken(b0, now) ==
    LET b == IF b0.present THEN b0 ELSE NewBucket(rlCfg.burst, now)
        tokens == Refill(b.tokens, now - b.last, rlCfg.rps, rlCfg.burst)
    IN  [admitted |-> tokens >= 1,
         bucket |-> [present |-> TRUE,
                     tokens |-> IF tokens >= 1 THEN tokens - 1 ELSE tokens,
                     last |-> now]]

\* The history of the buckets bs1 that remain of bs, after a request of ip
\* that was let through or not.
Lived(bs, bs1, ip, admitted, now) ==
    [i \in RlIps |->
        IF i = ip
        THEN LET l == IF bs1[i].present THEN life[i] ELSE [born |-> now, passed |-> 0]
             IN  [l EXCEPT !.passed = IF admitted THEN @ + 1 ELSE @]
        ELSE IF bs1[i].present THEN life[i] ELSE NoLife]

\* RateLimit::handle for client address ip
RateLimit_handle(ip) ==
    /\ rlCfg.registered
    /\ LET cleanup == BucketCount(buckets, crowd) > BUCKET_CLEANUP_THRESHOLD
           bs1 == IF cleanup THEN RetainFresh(buckets, rlNow) ELSE buckets
           crowd1 == IF cleanup /\ ~IsFresh(crowdLast, rlNow) THEN 0 ELSE crowd
           took == TakeToken(bs1[ip], rlNow)
           admitted == took.admitted
           solo == TakeToken(alone[ip], rlNow)
       IN  /\ buckets' = [bs1 EXCEPT ![ip] = took.bucket]
           /\ crowd' = crowd1
           /\ rlLast' = [ip |-> ip, admitted |-> admitted, cleaned |-> cleanup,
                         solo |-> solo.admitted]
           /\ alone' = [alone EXCEPT ![ip] = solo.bucket]
           /\ win' = IF admitted /\ win.ip = ip
                     THEN [win EXCEPT !.count = win.count + 1] ELSE win
           /\ life' = Lived(buckets, bs1, ip, admitted, rlNow)
    /\ UNCHANGED <<rlCfg, crowdLast, rlNow>>

\* BUCKET_CLEANUP_THRESHOLD requests at this instant, each RateLimit::handle for
\* a client address not seen before: each inserts a bucket (and is let through
\* when burst >= 1); the cleanup runs in those calls that find more than
\* BUCKET_CLEANUP_THRESHOLD buckets.
RateLimit_handle_crowd ==
    /\ rlCfg.registered
    /\ crowd = 0
    /\ LET cleanup == BucketCount(buckets, BUCKET_CLEANUP_THRESHOLD - 1)
                          > BUCKET_CLEANUP_THRESHOLD
           bs1 == IF cleanup THEN RetainFresh(buckets, rlNow) ELSE buckets
       IN  /\ buckets' = bs1
           /\ life' = [i \in RlIps |-> IF bs1[i].present THEN life[i] ELSE NoLife]
    /\ crowd' = BUCKET_CLEANUP_THRESHOLD
    /\ crowdLast' = rlNow
    /\ UNCHANGED <<rlCfg, rlNow, rlLast, win, alone>>

\* Time passes: one second, or the staleness period.
RlTick(d) ==
    /\ rlNow + d <= RlMaxClock
    /\ d = 1 => (rlNow % BUCKET_STALE_SECS) < RlMaxFine
    /\ rlNow' = rlNow + d
    /\ UNCHANGED <<rlCfg, buckets, crowd, crowdLast, rlLast, win, life, alone>>

\* Observer: a window for address ip starts now.
RlOpenWindow(ip) ==
    /\ rlCfg.registered
    /\ win = NoWindow
    /\ win' = [ip |-> ip, start |-> rlNow, count |-> 0]
    /\ UNCHANGED <<rlCfg, buckets, crowd, crowdLast, rlNow, rlLast, life, alone>>

RLNext ==
    \/ \E r \in RpsSet, b \in BurstSet : rate_limiter_register(r, b)
    \/ \E ip \in RlIps : RateLimit_handle(ip)
    \/ RateLimit_handle_crowd
    \/ \E d \in {1, BUCKET_STALE_SECS} : RlTick(d)
    \/ \E ip \in RlIps : RlOpenWindow(ip)

(***************************************************************************)
(*                               SERVER                                    *)
(*                                                                         *)
(* The main thread runs the accept loop, the drain loop and the pool       *)
(* shutdown; worker threads receive streams from the bounded channel and   *)
(* run handle_h1; on the TLS path the event loop runs one task per         *)
(* connection (handshake, then HTTP/2, or hand-over to the workers) and    *)
(* one per HTTP/3 connection.  Each connection carries one request.        *)
(***************************************************************************)
VARIABLES
    srvPc,          \* position of the main thread in Server::run
    srvCfg,         \* Srv: tls assets present, http2, http3
    SHUTDOWN,       \* static SHUTDOWN: AtomicBool
    ACTIVE_CONNS,   \* static ACTIVE_CONNS: AtomicUsize
    chan,           \* streams queued in the pool's sync_channel
    sender,         \* a SyncSender of the channel is alive
    worker,         \* position of each worker thread, the stream it holds, and
                    \* (history) whether it has recovered from a panic
    conn,           \* per accepted connection: kind, fate, pipeline invoked
    accepted,       \* number of connections accepted so far
    requests_total, \* metrics::REQUESTS_TOTAL
    requests_ok,    \* metrics::REQUESTS_OK
    requests_err,   \* metrics::REQUESTS_ERR
    atShutdown,     \* history: connections being handled when shutdown was requested
    deadline,       \* Instant::now() > deadline in the drain loop
    slow            \* history: connections still being handled at the deadline

srvVars == <<srvPc, srvCfg, SHUTDOWN, ACTIVE_CONNS, chan, sender, worker, conn,
             accepted, requests_total, requests_ok, requests_err, atShutdown,
             deadline, slow>>

SrvWorkers == {"t1", "t2"}
SrvMaxAccepts == 2
SrvMaxConnections == 1

\* mpsc::sync_channel::<ClientStream>(size * 2)
ChannelCapacity == Cardinality(SrvWorkers) * 2

ConnIds == 1..SrvMaxAccepts

\* (tls assets present, http2, http3)
SrvConfigs == {[tls |-> FALSE, http2 |-> FALSE, http3 |-> FALSE],
               [tls |-> TRUE, http2 |-> FALSE, http3 |-> FALSE],
               [tls |-> TRUE, http2 |-> TRUE, http3 |-> TRUE]}

ReadResults == {"Ok", "TimedOut", "Error", "Unparsable", "LengthRequired"}
PipelineStatuses == {200, 502}

\* A connection whose request is being read or handled.
Handling == {"worker", "ev_req"}
\* Event-loop tasks of the tokio runtime.
EventLoopTasks == {"handshake", "ev_idle", "ev_req"}

NoConn == [kind |-> "none", st |-> "new", piped |-> FALSE]

ServerInit ==
    /\ srvPc = "init"
    /\ srvCfg = [tls |-> FALSE, http2 |-> FALSE, http3 |-> FALSE]
    /\ SHUTDOWN = FALSE
    /\ ACTIVE_CONNS = 0
    /\ chan = <<>>
    /\ sender = TRUE
    /\ worker = [w \in SrvWorkers |->
                    [pc |-> "recv", conn |-> 0, recovered |-> FALSE]]
    /\ conn = [c \in ConnIds |-> NoConn]
    /\ accepted = 0
    /\ requests_total = 0
    /\ requests_ok = 0
    /\ requests_err = 0
    /\ atShutdown = {}
    /\ deadline = FALSE
    /\ slow = {}

\* Server::run up to the accept loop: main has sorted the pipeline, the thread
\* pool is created, run_tls or run_plain is entered.
Server_run(cfg) ==
    /\ srvPc = "init"
    /\ phase = "serving"
    /\ srvCfg' = cfg
    /\ srvPc' = "accept"
    /\ UNCHANGED <<SHUTDOWN, ACTIVE_CONNS, chan, sender, worker, conn, accepted,
                   requests_total, requests_ok, requests_err, atShutdown,
                   deadline, slow>>

\* server::request_shutdown (signal handler, admin API)
request_shutdown ==
    /\ srvPc = "accept"
    /\ ~SHUTDOWN
    /\ SHUTDOWN' = TRUE
    /\ atShutdown' = {c \in ConnIds : conn[c].st \in Handling}
    /\ UNCHANGED <<srvPc, srvCfg, ACTIVE_CONNS, chan, sender, worker, conn,
                   accepted, requests_total, requests_ok, requests_err,
                   deadline, slow>>

\* One iteration of run_plain that accepts a stream: reject_overloaded when the
\* gauge is at max_connections or ThreadPool::dispatch fails, else queued.
run_plain_accept ==
    /\ srvPc = "accept"
    /\ ~srvCfg.tls
    /\ accepted < SrvMaxAccepts
    /\ accepted' = accepted + 1
    /\ IF ACTIVE_CONNS >= SrvMaxConnections \/ Len(chan) >= ChannelCapacity
       THEN /\ requests_err' = requests_err + 1
            /\ conn' = [conn EXCEPT ![accepted + 1] =
                            [kind |-> "plain", st |-> "rejected_503", piped |-> FALSE]]
            /\ chan' = chan
       ELSE /\ chan' = Append(chan, accepted + 1)
            /\ conn' = [conn EXCEPT ![accepted + 1] =
                            [kind |-> "plain", st |-> "queued", piped |-> FALSE]]
            /\ requests_err' = requests_err
    /\ UNCHANGED <<srvPc, srvCfg, SHUTDOWN, ACTIVE_CONNS, sender, worker,
                   requests_total, requests_ok, atShutdown, deadline, slow>>

\* One iteration of run_tls that accepts a stream: dropped when the gauge is at
\* max_connections, else a handshake task is spawned.
run_tls_accept ==
    /\ srvPc = "accept"
    /\ srvCfg.tls
    /\ accepted < SrvMaxAccepts
    /\ accepted' = accepted + 1
    /\ IF ACTIVE_CONNS >= SrvMaxConnections
       THEN /\ requests_err' = requests_err + 1
            /\ conn' = [conn EXCEPT ![accepted + 1] =
                            [kind |-> "tls", st |-> "dropped", piped |-> FALSE]]
       ELSE /\ conn' = [conn EXCEPT ![accepted + 1] =
                            [kind |-> "tls", st |-> "handshake", piped |-> FALSE]]
            /\ requests_err' = requests_err
    /\ UNCHANGED <<srvPc, srvCfg, SHUTDOWN, ACTIVE_CONNS, chan, sender, worker,
                   requests_total, requests_ok, atShutdown, deadline, slow>>

\* The task spawned by run_tls: handshake, then HTTP/2 in the event loop when
\* negotiated and enabled, else try_send to the workers.
run_tls_task(c, alpn) ==
    /\ srvPc = "accept"
    /\ conn[c].st = "handshake"
    /\ IF alpn = "failed"
       THEN /\ conn' = [conn EXCEPT ![c].st = "closed"]
            /\ UNCHANGED <<ACTIVE_CONNS, chan>>
       ELSE IF srvCfg.http2 /\ alpn = "h2"
       THEN /\ ACTIVE_CONNS' = ACTIVE_CONNS + 1
            /\ conn' = [conn EXCEPT ![c] = [kind |-> "h2", st |-> "ev_idle",
                                            piped |-> FALSE]]
            /\ chan' = chan
       ELSE /\ IF Len(chan) < ChannelCapacity
               THEN /\ chan' = Append(chan, c)
                    /\ conn' = [conn EXCEPT ![c].st = "queued"]
               ELSE /\ chan' = chan
                    /\ conn' = [conn EXCEPT ![c].st = "dropped"]
            /\ UNCHANGED ACTIVE_CONNS
    /\ UNCHANGED <<srvPc, srvCfg, SHUTDOWN, sender, worker, accepted,
                   requests_total, requests_ok, requests_err, atShutdown,
                   deadline, slow>>

\* h3_handler::run_h3_server accepts a QUIC connection and spawns its task.
run_h3_server_accept ==
    /\ srvPc = "accept"
    /\ srvCfg.tls /\ srvCfg.http3
    /\ ~SHUTDOWN
    /\ accepted < SrvMaxAccepts
    /\ accepted' = accepted + 1
    /\ conn' = [conn EXCEPT ![accepted + 1] =
                    [kind |-> "h3", st |-> "ev_idle", piped |-> FALSE]]
    /\ UNCHANGED <<srvPc, srvCfg, SHUTDOWN, ACTIVE_CONNS, chan, sender, worker,
                   requests_total, requests_ok, requests_err, atShutdown,
                   deadline, slow>>

\* h2_handler::handle_stream / h3_handler::handle_request up to the
\* spawn_blocking that calls Pipeline::handle.
handle_stream_request(c) ==
    /\ srvPc = "accept"
    /\ conn[c].st = "ev_idle"
    /\ requests_total' = requests_total + 1
    /\ conn' = [conn EXCEPT ![c].st = "ev_req", ![c].piped = TRUE]
    /\ UNCHANGED <<srvPc, srvCfg, SHUTDOWN, ACTIVE_CONNS, chan, sender, worker,
                   accepted, requests_ok, requests_err, atShutdown, deadline, slow>>

\* The rest of handle_stream / handle_request: Pipeline::handle has returned
\* status, or panicked and the JoinError became a 500; the response is sent, the
\* client closes, and an HTTP/2 connection leaves the gauge.
handle_stream_respond(c, status, panicked) ==
    /\ srvPc = "accept"
    /\ conn[c].st = "ev_req"
    /\ IF ~panicked /\ status < 400
       THEN /\ requests_ok' = requests_ok + 1
            /\ requests_err' = requests_err
       ELSE /\ requests_err' = requests_err + 1
            /\ requests_ok' = requests_ok
    /\ conn' = [conn EXCEPT ![c].st = "answered"]
    /\ ACTIVE_CONNS' = IF conn[c].kind = "h2" THEN ACTIVE_CONNS - 1 ELSE ACTIVE_CONNS
    /\ UNCHANGED <<srvPc, srvCfg, SHUTDOWN, chan, sender, worker, accepted,
                   requests_total, atShutdown, deadline, slow>>

\* The accept loop sees SHUTDOWN and breaks.  run_tls returns and drops its
\* tokio runtime: every task of the event loop is dropped where it is
\* suspended, so the statements after its await (the response, the fetch_sub of
\* the gauge) never run.
accept_loop_break ==
    /\ srvPc = "accept"
    /\ SHUTDOWN
    /\ srvPc' = "drain"
    /\ conn' = [c \in ConnIds |->
                    IF conn[c].st \in EventLoopTasks
                    THEN [conn[c] EXCEPT !.st = "aborted"]
                    ELSE conn[c]]
    /\ UNCHANGED <<srvCfg, SHUTDOWN, ACTIVE_CONNS, chan, sender, worker, accepted,
                   requests_total, requests_ok, requests_err, atShutdown,
                   deadline, slow>>

\* shutdown_timeout seconds pass while the main thread is in the drain loop.
drain_deadline_passes ==
    /\ srvPc = "drain"
    /\ ~deadline
    /\ deadline' = TRUE
    /\ slow' = {c \in ConnIds : conn[c].st \in Handling}
    /\ UNCHANGED <<srvPc, srvCfg, SHUTDOWN, ACTIVE_CONNS, chan, sender, worker,
                   conn, accepted, requests_total, requests_ok, requests_err,
                   atShutdown>>

\* The drain loop of Server::run ends (gauge at zero, or deadline passed) and
\* ThreadPool::shutdown drops the sender.
drain_loop_break ==
    /\ srvPc = "drain"
    /\ ACTIVE_CONNS = 0 \/ deadline
    /\ sender' = FALSE
    /\ srvPc' = "join"
    /\ UNCHANGED <<srvCfg, SHUTDOWN, ACTIVE_CONNS, chan, worker, conn, accepted,
                   requests_total, requests_ok, requests_err, atShutdown,
                   deadline, slow>>

\* ThreadPool::shutdown has joined every worker; "Server stopped." is logged.
server_stopped ==
    /\ srvPc = "join"
    /\ \A w \in SrvWorkers : worker[w].pc = "exited"
    /\ srvPc' = "stopped"
    /\ UNCHANGED <<srvCfg, SHUTDOWN, ACTIVE_CONNS, chan, sender, worker, conn,
                   accepted, requests_total, requests_ok, requests_err,
                   atShutdown, deadline, slow>>

\* Worker loop: recv() yields a queued stream (ConnGuard::new, handle_h1
\* begins) or, with the channel empty and disconnected, an error (the worker
\* exits).
worker_recv(w) ==
    /\ srvPc # "init"
    /\ worker[w].pc = "recv"
    /\ IF chan # <<>>
       THEN /\ chan' = Tail(chan)
            /\ ACTIVE_CONNS' = ACTIVE_CONNS + 1
            /\ worker' = [worker EXCEPT ![w].pc = "handle_h1", ![w].conn = Head(chan)]
            /\ conn' = [conn EXCEPT ![Head(chan)].st = "worker"]
       ELSE /\ ~sender
            /\ worker' = [worker EXCEPT ![w].pc = "exited", ![w].conn = 0]
            /\ UNCHANGED <<chan, ACTIVE_CONNS, conn>>
    /\ UNCHANGED <<srvPc, srvCfg, SHUTDOWN, sender, accepted, requests_total,
                   requests_ok, requests_err, atShutdown, deadline, slow>>

\* handle_h1 up to the call of Pipeline::handle; read is the outcome of
\* read_http_message, of HttpRequest::parse and of the length check.
handle_h1_read(w, read) ==
    /\ worker[w].pc = "handle_h1"
    /\ LET c == worker[w].conn
           Return(st) ==
               /\ conn' = [conn EXCEPT ![c].st = st]
               /\ ACTIVE_CONNS' = ACTIVE_CONNS - 1
               /\ worker' = [worker EXCEPT ![w].pc = "recv", ![w].conn = 0]
       IN  IF raw
           THEN /\ Return(IF conn[c].kind = "plain" THEN "relayed" ELSE "closed")
                /\ UNCHANGED <<requests_total, requests_err>>
           ELSE CASE read = "TimedOut" ->
                       /\ Return("timed_out")
                       /\ UNCHANGED <<requests_total, requests_err>>
                  [] read = "Error" ->
                       /\ Return("answered")
                       /\ requests_err' = requests_err + 1
                       /\ UNCHANGED requests_total
                  [] read \in {"Unparsable", "LengthRequired"} ->
                       /\ Return("answered")
                       /\ requests_total' = requests_total + 1
                       /\ requests_err' = requests_err + 1
                  [] OTHER ->
                       /\ requests_total' = requests_total + 1
                       /\ conn' = [conn EXCEPT ![c].piped = TRUE]
                       /\ worker' = [worker EXCEPT ![w].pc = "pipeline"]
                       /\ UNCHANGED <<ACTIVE_CONNS, requests_err>>
    /\ UNCHANGED <<srvPc, srvCfg, SHUTDOWN, chan, sender, accepted, requests_ok,
                   atShutdown, deadline, slow>>

\* The rest of handle_h1: Pipeline::handle returned a response of this status;
\* the request is counted, the response is written, the guard is dropped.
handle_h1_respond(w, status) ==
    /\ worker[w].pc = "pipeline"
    /\ IF status < 400
       THEN /\ requests_ok' = requests_ok + 1
            /\ requests_err' = requests_err
       ELSE /\ requests_err' = requests_err + 1
            /\ requests_ok' = requests_ok
    /\ conn' = [conn EXCEPT ![worker[w].conn].st = "answered"]
    /\ ACTIVE_CONNS' = ACTIVE_CONNS - 1
    /\ worker' = [worker EXCEPT ![w].pc = "recv", ![w].conn = 0]
    /\ UNCHANGED <<srvPc, srvCfg, SHUTDOWN, chan, sender, accepted, requests_total,
                   atShutdown, deadline, slow>>

worker_dies == "exited"

\* Where the worker goes on after std::panic::catch_unwind returned Err: the
\* error is logged and the loop takes its next turn.
catch_unwind == "recv"

\* Pipeline::handle panics: catch_unwind recovers, the stream and the guard are
\* dropped by the unwinding, the worker loops.
handle_h1_panic(w) ==
    /\ worker[w].pc = "pipeline"
    /\ conn' = [conn EXCEPT ![worker[w].conn].st = "panicked"]
    /\ ACTIVE_CONNS' = ACTIVE_CONNS - 1
    /\ worker' = [worker EXCEPT ![w].pc = catch_unwind, ![w].conn = 0,
                                ![w].recovered = TRUE]
    /\ UNCHANGED <<srvPc, srvCfg, SHUTDOWN, chan, sender, accepted, requests_total,
                   requests_ok, requests_err, atShutdown, deadline, slow>>

\* main: register_all (raw_tcp among the modules), sort, Server::run; then the
\* threads of the server.
ServerNext ==
    \/ raw_tcp_register /\ UNCHANGED srvVars
    \/ sort /\ UNCHANGED srvVars
    \/ /\ UNCHANGED pipeVars
       /\ \/ \E cfg \in SrvConfigs : Server_run(cfg)
          \/ request_shutdown
          \/ run_plain_accept
          \/ run_tls_accept
          \/ \E c \in ConnIds, alpn \in {"failed", "h2", "http/1.1"} : run_tls_task(c, alpn)
          \/ run_h3_server_accept
          \/ \E c \in ConnIds : handle_stream_request(c)
          \/ \E c \in ConnIds, s \in PipelineStatuses, p \in BOOLEAN :
                handle_stream_respond(c, s, p)
          \/ accept_loop_break
          \/ drain_deadline_passes
          \/ drain_loop_break
          \/ server_stopped
          \/ \E w \in SrvWorkers : worker_recv(w)
          \/ \E w \in SrvWorkers, r \in ReadResults : handle_h1_read(w, r)
          \/ \E w \in SrvWorkers, s \in PipelineStatuses : handle_h1_respond(w, s)
          \/ \E w \in SrvWorkers : handle_h1_panic(w)

(***************************************************************************)
(*                                CACHE                                    *)
(*                                                                         *)
(* The cache (priority 80) sits before url_rewriter (90), compression      *)
(* (100) and the backend modules.  Cache::handle and Cache::on_response    *)
(* each run under the map mutex and are one step each; what the later      *)
(* modules do in between is a third step.  Paths are sequences of          *)
(* segments; time is in seconds.                                           *)
(***************************************************************************)
VARIABLES
    cache,      \* Cache.cache: HashMap<String, Entry>, by path
    cacheReg,   \* cache::register has run
    warm,       \* warm_urls the warm-up thread has not fetched yet
    cacheNow,   \* Instant::now()
    creq        \* per worker: the request it is handling and its response

cacheVars == <<cache, cacheReg, warm, cacheNow, creq>>

CacheThreads == {"k1", "k2"}

\* ttl_seconds (default), the expiry of warm-up entries, compression min_size
CacheTtl == 300
WARM_TTL == 300
min_size == 256

\* max_size of the configuration, kept in Cache._max
CacheMaxSize == 2

\* Bounds of the clock.
CacheTickSecs == 150
CacheMaxClock == 450

P_old == <<"old", "a">>
P_new == <<"new", "a">>
P_img == <<"img">>
CachePaths == {P_old, P_new, P_img}

\* url_rewriter rules: prefix and replacement.
RewriteRules == <<[p |-> <<"old">>, repl |-> <<"new">>]>>

CacheRequests ==
    {[method |-> "GET", path |-> P_old, inm |-> "none", gz |-> TRUE],
     [method |-> "GET", path |-> P_new, inm |-> "none", gz |-> FALSE],
     [method |-> "GET", path |-> P_new, inm |-> "v1", gz |-> FALSE],
     [method |-> "POST", path |-> P_new, inm |-> "none", gz |-> FALSE],
     [method |-> "GET", path |-> P_img, inm |-> "none", gz |-> TRUE]}

NoRequest == [method |-> "none", path |-> <<>>, inm |-> "none", gz |-> FALSE]

NoResp == [status |-> 0, etag |-> "none", ctype |-> "none", len |-> 0,
           body |-> "none", encoding |-> "none", xcache |-> FALSE]

\* What the backend serves at each path.
Backend(path) ==
    CASE path = P_new -> [status |-> 200, etag |-> "v1", ctype |-> "text/html",
                          len |-> 1000, body |-> "page", encoding |-> "identity",
                          xcache |-> FALSE]
      [] path = P_img -> [status |-> 200, etag |-> "none", ctype |-> "image/png",
                          len |-> 1000, body |-> "img", encoding |-> "identity",
                          xcache |-> FALSE]
      [] OTHER -> [status |-> 404, etag |-> "none", ctype |-> "text/html",
                   len |-> 9, body |-> "Not Found", encoding |-> "identity",
                   xcache |-> FALSE]

NoEntry == [present |-> FALSE, resp |-> NoResp, exp |-> 0, method |-> "none"]

CacheIdle == [pc |-> "idle", req |-> NoRequest, key |-> <<>>, resp |-> NoResp,
              expired |-> FALSE]

CacheInit ==
    /\ cache = [p \in CachePaths |-> NoEntry]
    /\ cacheReg = FALSE
    /\ warm = <<>>
    /\ cacheNow = 0
    /\ creq = [w \in CacheThreads |-> CacheIdle]

\* cache::register: the map is created, the warm-up and eviction threads start.
cache_register(urls) ==
    /\ ~cacheReg
    /\ cacheReg' = TRUE
    /\ warm' = urls
    /\ UNCHANGED <<cache, cacheNow, creq>>

\* One iteration of the warm_cache loop: fetch(u) from the local upstream
\* succeeds or fails; a fetched response is inserted.  The entry answers a GET.
warm_cache(fetched) ==
    /\ cacheReg
    /\ warm # <<>>
    /\ warm' = Tail(warm)
    /\ cache' = IF fetched
                THEN [cache EXCEPT ![Head(warm)] =
                         [present |-> TRUE, resp |-> Backend(Head(warm)),
                          exp |-> cacheNow + WARM_TTL, method |-> "GET"]]
                ELSE cache
    /\ UNCHANGED <<cacheReg, cacheNow, creq>>

\* One iteration of the eviction thread: m.retain(|_, e| now < e.exp)
start_eviction_thread ==
    /\ cacheReg
    /\ ~SHUTDOWN
    /\ cache' = [p \in CachePaths |->
                    IF cache[p].present /\ ~(cacheNow < cache[p].exp)
                    THEN NoEntry ELSE cache[p]]
    /\ UNCHANGED <<cacheReg, warm, cacheNow, creq>>

NotModified == [status |-> 304, etag |-> "none", ctype |-> "none", len |-> 0,
                body |-> "", encoding |-> "identity", xcache |-> TRUE]

HitUnmarked(e, rq) == e.resp

\* Cache::handle, the entry e being live: 304 when If-None-Match equals the
\* stored ETag, else a clone of the stored response with X-Cache: HIT appended
Hit(e, rq) ==
    IF rq.inm # "none" /\ e.resp.etag # "none" /\ rq.inm = e.resp.etag
    THEN NotModified
    ELSE [e.resp EXCEPT !.xcache = TRUE]

IsLiveAtExpiry(e, now) == now <= e.exp

\* Instant::now() < e.exp
IsLive(e, now) == now < e.exp

\* Cache::handle; the field expired records that the lookup found an entry
\* past its expiry and removed it
Cache_handle(w, rq) ==
    /\ cacheReg
    /\ creq[w].pc \in {"idle", "done"}
    /\ LET k == rq.path
           e == cache[k]
           Continue(x) == creq' = [creq EXCEPT ![w] = [pc |-> "miss", req |-> rq,
                                                       key |-> k, resp |-> NoResp,
                                                       expired |-> x]]
           Miss == Continue(FALSE)
           Serve(r) == creq' = [creq EXCEPT ![w] = [pc |-> "done", req |-> rq,
                                                    key |-> k, resp |-> r,
                                                    expired |-> FALSE]]
       IN  IF rq.method # "GET"
           THEN Miss /\ cache' = cache
           ELSE IF e.present
           THEN IF IsLive(e, cacheNow)
                THEN /\ cache' = cache
                     /\ Serve(Hit(e, rq))
                ELSE /\ cache' = [cache EXCEPT ![k] = NoEntry]
                     /\ Continue(TRUE)
           ELSE Miss /\ cache' = cache
    /\ UNCHANGED <<cacheReg, warm, cacheNow>>

StartsWith(path, p) == Len(path) >= Len(p) /\ SubSeq(path, 1, Len(p)) = p

\* r.path.replacen(p, repl, 1), p being a prefix of the path
Replacen(path, p, repl) == repl \o SubSeq(path, Len(p) + 1, Len(path))

\* Rewrite::handle: the first rule whose prefix matches rewrites the path.
RECURSIVE Rewrite(_, _)
Rewrite(path, i) ==
    IF i > Len(RewriteRules) THEN path
    ELSE IF StartsWith(path, RewriteRules[i].p)
         THEN Replacen(path, RewriteRules[i].p, RewriteRules[i].repl)
         ELSE Rewrite(path, i + 1)

is_compressible(ct) == ct \in {"text/html", "application/json"}

\* Length of the gzip form of a body of this length.
GzLen(len) == len \div 2 + 20

\* Compress::on_response
Compress_on_response(accepts_gzip, r) ==
    IF ~accepts_gzip \/ r.len < min_size \/ r.encoding # "identity"
       \/ ~is_compressible(r.ctype) \/ GzLen(r.len) >= r.len
    THEN r
    ELSE [r EXCEPT !.encoding = "gzip", !.len = GzLen(r.len)]

\* The modules after the cache, for a request the cache let through:
\* Rewrite::handle, Compress::handle, the backend's answer for the rewritten
\* path, Compress::on_response.
after_cache(w) ==
    /\ creq[w].pc = "miss"
    /\ LET path == Rewrite(creq[w].req.path, 1)
       IN  creq' = [creq EXCEPT ![w].pc = "resp",
                                ![w].req.path = path,
                                ![w].resp = Compress_on_response(creq[w].req.gz,
                                                                 Backend(path))]
    /\ UNCHANGED <<cache, cacheReg, warm, cacheNow>>

\* Cache::on_response
Cache_on_response(w) ==
    /\ creq[w].pc = "resp"
    /\ cache' = IF ~creq[w].resp.xcache /\ creq[w].resp.status = 200
                THEN [cache EXCEPT ![creq[w].req.path] =
                         [present |-> TRUE, resp |-> creq[w].resp,
                          exp |-> cacheNow + CacheTtl,
                          method |-> creq[w].req.method]]
                ELSE cache
    /\ creq' = [creq EXCEPT ![w].pc = "done"]
    /\ UNCHANGED <<cacheReg, warm, cacheNow>>

CacheTick ==
    /\ cacheNow + CacheTickSecs <= CacheMaxClock
    /\ cacheNow' = cacheNow + CacheTickSecs
    /\ UNCHANGED <<cache, cacheReg, warm, creq>>

CacheNext ==
    \/ \E urls \in {<<>>, <<P_old>>, <<P_img>>} : cache_register(urls)
    \/ \E f \in BOOLEAN : warm_cache(f)
    \/ start_eviction_thread
    \/ \E w \in CacheThreads, rq \in CacheRequests : Cache_handle(w, rq)
    \/ \E w \in CacheThreads : after_cache(w)
    \/ \E w \in CacheThreads : Cache_on_response(w)
    \/ CacheTick

(***************************************************************************)
(*                          CONNECTION POOL                                *)
(*                                                                         *)
(* get and put run under the map mutex, so each call is one step.  A call  *)
(* touches only the queue of its own address, so one address is followed.  *)
(* An idle entry is the instant it was pushed; the streams held by callers *)
(* are counted.  The branches for a poisoned mutex are left out: nothing   *)
(* panics while the lock is held.                                          *)
(***************************************************************************)
VARIABLES
    idle,       \* ConnPool.idle[addr]: Vec<Pooled>, each entry its `created`
    held,       \* streams obtained from get and not yet put or closed
    poolNow,    \* Instant::now()
    lastGet,    \* the last get: pool hit or not, idle age of the stream returned
    lastPut     \* the last put: queue length found, after the prune, and after

poolVars == <<idle, held, poolNow, lastGet, lastPut>>

MAX_IDLE_PER_HOST == 8
MAX_IDLE_AGE == 30

PoolMaxHeld == 9
PoolTickSecs == 15
PoolMaxClock == 45

NoGet == [called |-> FALSE, ok |-> FALSE, hit |-> FALSE, age |-> 0]
NoPut == [called |-> FALSE, found |-> 0, kept |-> 0, left |-> 0, changed |-> FALSE]

PoolInit ==
    /\ idle = <<>>
    /\ held = 0
    /\ poolNow = 0
    /\ lastGet = NoGet
    /\ lastPut = NoPut

\* The pop loop of ConnPool::get.  Entries are popped from the back; one older
\* than MAX_IDLE_AGE is discarded; of the others, the first `dead` ones fail the
\* liveness probe and are discarded, the next one is returned.
RECURSIVE PopLoop(_, _, _)
PopLoop(conns, now, dead) ==
    IF conns = <<>> THEN [hit |-> FALSE, age |-> 0, conns |-> <<>>]
    ELSE LET pooled == conns[Len(conns)]
             rest == SubSeq(conns, 1, Len(conns) - 1)
         IN  IF now - pooled > MAX_IDLE_AGE THEN PopLoop(rest, now, dead)
             ELSE IF dead > 0 THEN PopLoop(rest, now, dead - 1)
             ELSE [hit |-> TRUE, age |-> now - pooled, conns |-> rest]

\* ConnPool::get(addr, timeout): a usable idle stream, else a fresh connection,
\* which succeeds or fails.
ConnPool_get(dead, connects) ==
    /\ held < PoolMaxHeld
    /\ LET r == PopLoop(idle, poolNow, dead)
       IN  /\ idle' = r.conns
           /\ held' = IF r.hit \/ connects THEN held + 1 ELSE held
           /\ lastGet' = [called |-> TRUE, ok |-> (r.hit \/ connects),
                          hit |-> r.hit, age |-> r.age]
    /\ UNCHANGED <<poolNow, lastPut>>

\* conns.retain(|p| p.created.elapsed() < MAX_IDLE_AGE)
Prune(conns, now) ==
    LET Fresh(created) == now - created < MAX_IDLE_AGE IN SelectSeq(conns, Fresh)

HasRoomAlways(conns) == TRUE

\* conns.len() < MAX_IDLE_PER_HOST
HasRoom(conns) == Len(conns) < MAX_IDLE_PER_HOST

\* ConnPool::put(addr, stream)
ConnPool_put ==
    /\ held > 0
    /\ held' = held - 1
    /\ LET conns == Prune(idle, poolNow)
       IN  /\ idle' = IF HasRoom(conns)
                      THEN Append(conns, poolNow)
                      ELSE conns
           /\ lastPut' = [called |-> TRUE, found |-> Len(idle), kept |-> Len(conns),
                          left |-> Len(idle'), changed |-> (idle' # idle)]
    /\ UNCHANGED <<poolNow, lastGet>>

\* A caller closes its stream instead of returning it (proxy_core on an error
\* or without keep-alive).
drop_stream ==
    /\ held > 0
    /\ held' = held - 1
    /\ UNCHANGED <<idle, poolNow, lastGet, lastPut>>

PoolTick ==
    /\ poolNow + PoolTickSecs <= PoolMaxClock
    /\ poolNow' = poolNow + PoolTickSecs
    /\ UNCHANGED <<idle, held, lastGet, lastPut>>

PoolNext ==
    \/ \E dead \in 0..1, connects \in BOOLEAN : ConnPool_get(dead, connects)
    \/ ConnPool_put
    \/ drop_stream
    \/ PoolTick

(***************************************************************************)
(*                            LOAD BALANCER                                *)
(*                                                                         *)
(* RoundRobin::handle runs on concurrent workers: the fetch_add on idx is  *)
(* one step, and each is_healthy call of the scan takes the read lock of   *)
(* the health map and is one step.  The prober thread of active_health     *)
(* writes the results of one round under the write lock.  idx wraps at     *)
(* usize::MAX + 1, which the bounded number of requests does not reach.    *)
(***************************************************************************)
VARIABLES
    backends,    \* RoundRobin.backends, <<>> before load_balancer::register
    idx,         \* RoundRobin.idx: AtomicUsize
    HEALTH,      \* active_health HEALTH: address -> bool
    lbReq,       \* per worker: position in RoundRobin::handle and its locals
    lbAssigned,  \* history: _backend_addr set for the n-th fetch_add, from 0
    lbEverDown   \* history: some backend has been reported down

lbVars == <<backends, idx, HEALTH, lbReq, lbAssigned, lbEverDown>>

\* Bound on the number of requests.
LbMaxRequests == 4

LbThreads == {"b1", "b2"}
LbAddrs == {"A:1", "B:2", "C:3"}

\* The configured lists: load_balancer.backends, not empty.
LbBackendLists == {<<"A:1", "B:2">>, <<"A:1", "B:2", "C:3">>}

NoAddr == "none"

\* refused: the addresses this scan has asked about and found reported down
LbIdle == [pc |-> "idle", n |-> 0, start |-> 0, offset |-> 0, addr |-> NoAddr,
           refused |-> {}]

\* Before load_balancer::register; is_healthy defaults to true.
LBInit ==
    /\ backends = <<>>
    /\ idx = 0
    /\ HEALTH = [a \in LbAddrs |-> TRUE]
    /\ lbReq = [t \in LbThreads |-> LbIdle]
    /\ lbAssigned = [n \in 0..LbMaxRequests |-> NoAddr]
    /\ lbEverDown = FALSE

\* load_balancer::register with a non-empty backends list
load_balancer_register(bs) ==
    /\ backends = <<>>
    /\ backends' = bs
    /\ UNCHANGED <<idx, HEALTH, lbReq, lbAssigned, lbEverDown>>

is_healthy_unknown(addr) == TRUE

\* active_health::is_healthy
is_healthy(addr) == HEALTH[addr]

StartIndexFixed(i, len) == 0

\* self.idx.fetch_add(1, Relaxed) % len, on a counter holding i
StartIndex(i, len) == i % len

\* self.backends[(start + offset) % len], the list being indexed from 0
BackendAt(start, offset) == backends[((start + offset) % Len(backends)) + 1]

\* RoundRobin::handle: let start = self.idx.fetch_add(1) % len
RoundRobin_fetch_add(t) ==
    /\ backends # <<>>
    /\ lbReq[t].pc \in {"idle", "done"}
    /\ idx < LbMaxRequests
    /\ idx' = idx + 1
    /\ lbReq' = [lbReq EXCEPT ![t] = [pc |-> "scan", n |-> idx,
                                      start |-> StartIndex(idx, Len(backends)),
                                      offset |-> 0, addr |-> NoAddr,
                                      refused |-> {}]]
    /\ UNCHANGED <<backends, HEALTH, lbAssigned, lbEverDown>>

\* RoundRobin::handle: one iteration of for offset in 0..len, or the fallback
\* to self.backends[start % len] after the loop
RoundRobin_scan(t) ==
    /\ lbReq[t].pc = "scan"
    /\ LET r == lbReq[t]
           Set(a) == /\ lbReq' = [lbReq EXCEPT ![t].pc = "done", ![t].addr = a]
                     /\ lbAssigned' = [lbAssigned EXCEPT ![r.n] = a]
       IN  IF r.offset < Len(backends)
           THEN IF is_healthy(BackendAt(r.start, r.offset))
                THEN Set(BackendAt(r.start, r.offset))
                ELSE /\ lbReq' = [lbReq EXCEPT
                                     ![t].offset = r.offset + 1,
                                     ![t].refused = r.refused \cup
                                         {BackendAt(r.start, r.offset)}]
                     /\ lbAssigned' = lbAssigned
           ELSE Set(BackendAt(r.start, 0))
    /\ UNCHANGED <<backends, idx, HEALTH, lbEverDown>>

\* One round of the prober thread: every monitored address is probed and the
\* results are written under the write lock.
active_health_probe(results) ==
    /\ backends # <<>>
    /\ ~SHUTDOWN
    /\ HEALTH' = results
    /\ HEALTH' # HEALTH
    /\ lbEverDown' = (lbEverDown \/ \E a \in LbAddrs : ~results[a])
    /\ UNCHANGED <<backends, idx, lbReq, lbAssigned>>

LBNext ==
    \/ \E bs \in LbBackendLists : load_balancer_register(bs)
    \/ \E t \in LbThreads : RoundRobin_fetch_add(t)
    \/ \E t \in LbThreads : RoundRobin_scan(t)
    \/ \E results \in [LbAddrs -> BOOLEAN] : active_health_probe(results)

(***************************************************************************)
(*                               METRICS                                   *)
(*                                                                         *)
(* record_latency is called by concurrent workers; its fetch_add, its load *)
(* and each compare_exchange_weak are one step each.  The counters wrap at *)
(* 2^64, which the bounded number of samples does not reach.               *)
(***************************************************************************)
VARIABLES
    LATENCY_SUM_MS,  \* static LATENCY_SUM_MS: AtomicU64
    LATENCY_MAX_MS,  \* static LATENCY_MAX_MS: AtomicU64
    mxReq,           \* per worker: position in record_latency, ms and current
    mxCount,         \* history: number of calls of record_latency
    mxLargest        \* history: the largest ms record_latency was called with

mxVars == <<LATENCY_SUM_MS, LATENCY_MAX_MS, mxReq, mxCount, mxLargest>>

\* Bound on the number of calls.
MxMaxSamples == 3

\* The cap the description names.
LatencyCap == 600000

MxThreads == {"m1", "m2"}

\* Latencies in ms: ctx.elapsed_ms() as u64
MxSamples == {0, 1000, LatencyCap, LatencyCap + 1}

MxIdle == [pc |-> "idle", ms |-> 0, current |-> 0]

MxInit ==
    /\ LATENCY_SUM_MS = 0
    /\ LATENCY_MAX_MS = 0
    /\ mxReq = [t \in MxThreads |-> MxIdle]
    /\ mxCount = 0
    /\ mxLargest = 0

\* record_latency: LATENCY_SUM_MS.fetch_add(ms)
record_latency_add(t, ms) ==
    /\ mxReq[t].pc = "idle"
    /\ mxCount < MxMaxSamples
    /\ LATENCY_SUM_MS' = LATENCY_SUM_MS + ms
    /\ mxCount' = mxCount + 1
    /\ mxLargest' = IF ms > mxLargest THEN ms ELSE mxLargest
    /\ mxReq' = [mxReq EXCEPT ![t] = [pc |-> "load", ms |-> ms, current |-> 0]]
    /\ UNCHANGED LATENCY_MAX_MS

\* record_latency: let mut current = LATENCY_MAX_MS.load(); while ms > current
record_latency_load(t) ==
    /\ mxReq[t].pc = "load"
    /\ mxReq' = [mxReq EXCEPT ![t].current = LATENCY_MAX_MS,
                              ![t].pc = IF mxReq[t].ms > LATENCY_MAX_MS
                                        THEN "cas" ELSE "idle"]
    /\ UNCHANGED <<LATENCY_SUM_MS, LATENCY_MAX_MS, mxCount, mxLargest>>

store_unchecked(value, current, spurious) == ~spurious

\* AtomicU64::compare_exchange_weak succeeds only when the value is the
\* expected one, and may fail spuriously even then
compare_exchange_weak(value, current, spurious) == value = current /\ ~spurious

\* record_latency: compare_exchange_weak(current, ms); on Err(c) current = c
\* and the loop condition is tested again
record_latency_cas(t, spurious) ==
    /\ mxReq[t].pc = "cas"
    /\ IF compare_exchange_weak(LATENCY_MAX_MS, mxReq[t].current, spurious)
       THEN /\ LATENCY_MAX_MS' = mxReq[t].ms
            /\ mxReq' = [mxReq EXCEPT ![t].pc = "idle"]
       ELSE /\ LATENCY_MAX_MS' = LATENCY_MAX_MS
            /\ mxReq' = [mxReq EXCEPT ![t].current = LATENCY_MAX_MS,
                                      ![t].pc = IF mxReq[t].ms > LATENCY_MAX_MS
                                                THEN "cas" ELSE "idle"]
    /\ UNCHANGED <<LATENCY_SUM_MS, mxCount, mxLargest>>

MxNext ==
    \/ \E t \in MxThreads, ms \in MxSamples : record_latency_add(t, ms)
    \/ \E t \in MxThreads : record_latency_load(t)
    \/ \E t \in MxThreads, spurious \in BOOLEAN : record_latency_cas(t, spurious)

(***************************************************************************)
(*                          PROXY FORWARDER                                *)
(*                                                                         *)
(* ProxyCore::handle on concurrent workers, with the backend streams told  *)
(* apart: pool.get, the write of the request, and the read of the response *)
(* with the keep-alive decision and pool.put are one step each; get and    *)
(* put hold the map mutex.  One backend address is followed.  A stream is  *)
(* closed when its owner drops it: a stream that was opened and is neither *)
(* in the idle queue nor held by a worker is closed.                       *)
(***************************************************************************)
VARIABLES
    pxIdle,     \* ConnPool.idle[addr]: Vec<Pooled>, entries [stream, created]
    pxOpened,   \* number of streams TcpStream::connect_timeout has opened
    pxPeer,     \* per stream: what the backend has done with its end
    pxNow,      \* Instant::now()
    pxReq       \* per worker: position in ProxyCore::handle and its locals

pxVars == <<pxIdle, pxOpened, pxPeer, pxNow, pxReq>>

\* Bound on the number of streams opened.
PxMaxStreams == 2

PxThreads == {"p1", "p2"}
PxStreams == 1..PxMaxStreams
NoStream == 0

\* What read_http_message and HttpResponse::parse make of the backend's
\* answer: the ReadResult, whether it parses, its version and the values of
\* its Connection header fields in order.
PxAnswers ==
    {[read |-> "ok", parsed |-> TRUE, version |-> v, connection |-> c] :
        v \in {"HTTP/1.0", "HTTP/1.1"},
        c \in {<<>>, <<"Close">>, <<"Keep-Alive">>, <<"upgrade", "close">>}}
    \cup {[read |-> r, parsed |-> FALSE, version |-> "none", connection |-> <<>>] :
            r \in {"ok", "timed_out", "error"}}

NoAnswer == [read |-> "none", parsed |-> FALSE, version |-> "none", connection |-> <<>>]

\* got: how the stream was obtained; age: its idle time when the pool gave it;
\* put: pool.put was called with it; status: the response of the handler.  When
\* the handler returns only its answer, put and status are kept.
PxIdle == [pc |-> "idle", stream |-> NoStream, got |-> "none", age |-> 0,
           answer |-> NoAnswer, put |-> FALSE, status |-> 0]

PxInit ==
    /\ pxIdle = <<>>
    /\ pxOpened = 0
    /\ pxPeer = [s \in PxStreams |-> "open"]
    /\ pxNow = 0
    /\ pxReq = [w \in PxThreads |-> PxIdle]

UsableAnyAge(p, now) == pxPeer[p.stream] = "open"

\* The tests of the pop loop on one entry: not older than MAX_IDLE_AGE, no
\* pending socket error, and the one-byte non-blocking read reports WouldBlock,
\* which it does when the backend has neither closed nor reset the stream.
\* set_nonblocking itself does not fail on an open descriptor.
Usable(p, now) ==
    /\ ~(now - p.created > MAX_IDLE_AGE)
    /\ pxPeer[p.stream] # "reset"
    /\ pxPeer[p.stream] = "open"

\* What conns.pop() leaves in the queue
Rest(conns) == SubSeq(conns, 1, Len(conns) - 1)

\* while let Some(pooled) = conns.pop() { ... } of ConnPool::get
RECURSIVE PopUsable(_, _)
PopUsable(conns, now) ==
    IF conns = <<>> THEN [hit |-> FALSE, stream |-> NoStream, age |-> 0, conns |-> <<>>]
    ELSE LET pooled == conns[Len(conns)]
         IN  IF Usable(pooled, now)
             THEN [hit |-> TRUE, stream |-> pooled.stream,
                   age |-> now - pooled.created, conns |-> Rest(conns)]
             ELSE PopUsable(Rest(conns), now)

\* ProxyCore::handle up to pool.get: an idle stream that passes the tests, else
\* a fresh connection, which succeeds or fails (502 Backend unavailable).
ProxyCore_get(w, connects) ==
    /\ pxReq[w].pc \in {"idle", "done"}
    /\ LET r == PopUsable(pxIdle, pxNow)
           fresh == ~r.hit /\ connects /\ pxOpened < PxMaxStreams
       IN  /\ pxIdle' = r.conns
           /\ pxOpened' = IF fresh THEN pxOpened + 1 ELSE pxOpened
           /\ pxReq' = [pxReq EXCEPT ![w] =
                 IF r.hit
                 THEN [PxIdle EXCEPT !.pc = "write", !.stream = r.stream,
                                     !.got = "pool", !.age = r.age]
                 ELSE IF fresh
                 THEN [PxIdle EXCEPT !.pc = "write", !.stream = pxOpened + 1,
                                     !.got = "connect"]
                 ELSE [PxIdle EXCEPT !.pc = "done", !.got = "failed", !.status = 502]]
    /\ UNCHANGED <<pxPeer, pxNow>>

\* s.write_all(&r.to_bytes()): on an error 502, and s is dropped
ProxyCore_write(w, ok) ==
    /\ pxReq[w].pc = "write"
    /\ pxReq' = [pxReq EXCEPT ![w] =
          IF ok THEN [pxReq[w] EXCEPT !.pc = "read"]
          ELSE [PxIdle EXCEPT !.pc = "done", !.status = 502]]
    /\ UNCHANGED <<pxIdle, pxOpened, pxPeer, pxNow>>

\* http::get_hdr on the Connection fields: the first one, "" when there is none
get_header_Connection(a) == IF a.connection = <<>> THEN "" ELSE Head(a.connection)

\* str::eq_ignore_ascii_case on the values that occur
eq_ignore_ascii_case(v, lower) ==
    \/ v = lower
    \/ (v = "Close" /\ lower = "close")
    \/ (v = "Keep-Alive" /\ lower = "keep-alive")

keep_alive_always(a) == TRUE

\* let keep_alive = if parsed.version == "HTTP/1.0" { .. } else { .. }
keep_alive(a) ==
    IF a.version = "HTTP/1.0"
    THEN eq_ignore_ascii_case(get_header_Connection(a), "keep-alive")
    ELSE ~eq_ignore_ascii_case(get_header_Connection(a), "close")

PxPutShared(conns, s, now) ==
    conns \o <<[stream |-> s, created |-> now], [stream |-> s, created |-> now]>>

\* ConnPool::put(addr, stream)
PxPut(conns, s, now) ==
    LET Fresh(p) == now - p.created < MAX_IDLE_AGE
        kept == SelectSeq(conns, Fresh)
    IN  IF HasRoom(kept) THEN Append(kept, [stream |-> s, created |-> now]) ELSE kept

\* ProxyCore::handle from read_http_message on: the response is parsed, and
\* with keep-alive the stream goes back to the pool; otherwise s is dropped.
ProxyCore_read(w, a) ==
    /\ pxReq[w].pc = "read"
    /\ LET back == a.read = "ok" /\ a.parsed /\ keep_alive(a)
       IN  /\ pxIdle' = IF back THEN PxPut(pxIdle, pxReq[w].stream, pxNow) ELSE pxIdle
           /\ pxReq' = [pxReq EXCEPT ![w] =
                 [PxIdle EXCEPT !.pc = "done", !.answer = a, !.put = back,
                                !.status = CASE a.read = "timed_out" -> 504
                                             [] a.read = "error" -> 502
                                             [] ~a.parsed -> 502
                                             [] OTHER -> 200]]
    /\ UNCHANGED <<pxOpened, pxPeer, pxNow>>

\* The backend closes its end of a stream, or resets it.
backend_closes(s, how) ==
    /\ s <= pxOpened
    /\ pxPeer[s] = "open"
    /\ pxPeer' = [pxPeer EXCEPT ![s] = how]
    /\ UNCHANGED <<pxIdle, pxOpened, pxNow, pxReq>>

PxTick ==
    /\ pxNow + PoolTickSecs <= PoolMaxClock
    /\ pxNow' = pxNow + PoolTickSecs
    /\ UNCHANGED <<pxIdle, pxOpened, pxPeer, pxReq>>

PxNext ==
    \/ \E w \in PxThreads, connects \in BOOLEAN : ProxyCore_get(w, connects)
    \/ \E w \in PxThreads, ok \in BOOLEAN : ProxyCore_write(w, ok)
    \/ \E w \in PxThreads, a \in PxAnswers : ProxyCore_read(w, a)
    \/ \E s \in PxStreams, how \in {"closed", "reset"} : backend_closes(s, how)
    \/ PxTick

(***************************************************************************)
(*                           MESSAGE READER                                *)
(*                                                                         *)
(* http::read_http_message on one source.  The bytes are counted, not      *)
(* kept: the source delivers a header section of hdr bytes, the blank line *)
(* included, then body bytes, and then reports EOF; how the bytes are      *)
(* split across the reads is open.  find_hdr_end finds the blank line once *)
(* hdr bytes are in d.  One iteration of the loop is one step.             *)
(***************************************************************************)
VARIABLES
    rdIn,   \* the message of the source and buf_size
    rd      \* the locals of read_http_message and its result

rdVars == <<rdIn, rd>>

MAX_HEADER_SIZE == 65536
MAX_BODY_SIZE == 16777216

\* buf_size: the default of the configuration, and a larger one
buffer_size == 8192
RdLargeBuffer == 131072

\* Length of a body.
RdBodyLen == 5

\* Content-Length absent
None == -1

\* framing: which of Content-Length (the body length) and Transfer-Encoding:
\* chunked (the body is the chunks through the zero chunk) the header section
\* has; utf8: the header section is valid UTF-8
RdInputs ==
    [hdr : {64, MAX_HEADER_SIZE, MAX_HEADER_SIZE + 1},
     body : {0, RdBodyLen},
     framing : {"none", "content-length", "chunked"},
     utf8 : BOOLEAN,
     buf : {buffer_size, RdLargeBuffer}]

\* Before the call.
RdInit ==
    /\ rdIn = [hdr |-> 0, body |-> 0, framing |-> "none", utf8 |-> TRUE, buf |-> 0]
    /\ rd = [d |-> 0, hdr_done |-> FALSE, body_start |-> 0, content_len |-> None,
             is_chunked |-> FALSE, timed_out |-> FALSE, result |-> "not called"]

\* read_http_message(r, buf_size) is called: the statements before the loop
read_http_message(in) ==
    /\ rd.result = "not called"
    /\ rdIn' = in
    /\ rd' = [rd EXCEPT !.result = "reading"]

\* What one r.read(&mut b) can return with d bytes delivered: all that fits in
\* the buffer, the bytes up to the blank line, or a single first byte.
ReadSizes(in, d) ==
    LET rem == in.hdr + in.body - d
    IN  {n \in {Min(in.buf, rem), Min(in.buf, in.hdr - d), IF d = 0 THEN 1 ELSE 0} :
            n > 0}

\* The statements after the loop
AfterLoop(s) ==
    [s EXCEPT !.result =
        IF s.d = 0
        THEN IF s.timed_out THEN "TimedOut" ELSE "connection closed"
        ELSE IF s.timed_out /\ ~s.hdr_done THEN "TimedOut"
        ELSE IF s.timed_out /\ s.content_len # None
                /\ s.d - s.body_start < s.content_len THEN "TimedOut"
        ELSE "Ok"]

\* The second half of the Ok(n) arm: if hdr_done { ... }
BodyCheck(in, s) ==
    LET body_len == s.d - s.body_start
    IN  IF ~s.hdr_done THEN s
        ELSE IF body_len > MAX_BODY_SIZE THEN [s EXCEPT !.result = "body too large"]
        ELSE IF s.content_len # None
        THEN IF body_len >= s.content_len THEN AfterLoop(s) ELSE s
        ELSE IF s.is_chunked /\ in.body > 0 /\ body_len >= in.body
        THEN AfterLoop(s)
        ELSE s

\* The Ok(n) arm of the loop
OnRead(in, s0, n) ==
    LET s == [s0 EXCEPT !.d = s0.d + n]
        content_len == IF in.framing = "content-length" THEN in.body ELSE None
        is_chunked == in.framing = "chunked"
        found == [s EXCEPT !.hdr_done = TRUE, !.body_start = in.hdr,
                           !.content_len = content_len, !.is_chunked = is_chunked]
    IN  IF s.hdr_done THEN BodyCheck(in, s)
        ELSE IF s.d > MAX_HEADER_SIZE THEN [s EXCEPT !.result = "headers too large"]
        ELSE IF s.d < in.hdr THEN s
        ELSE IF ~in.utf8
        THEN [s EXCEPT !.hdr_done = TRUE, !.body_start = in.hdr,
                       !.result = "invalid header encoding"]
        ELSE IF content_len # None /\ content_len > MAX_BODY_SIZE
        THEN [found EXCEPT !.result = "body too large"]
        ELSE IF content_len = None /\ ~is_chunked THEN AfterLoop(found)
        ELSE BodyCheck(in, found)

\* r.read(&mut b) returns Ok(n), n > 0
read_Ok(n) ==
    /\ rd.result = "reading"
    /\ n \in ReadSizes(rdIn, rd.d)
    /\ rd' = OnRead(rdIn, rd, n)
    /\ UNCHANGED rdIn

\* r.read(&mut b) returns Ok(0): the source has delivered everything and closed
read_Ok0 ==
    /\ rd.result = "reading"
    /\ rd.d = rdIn.hdr + rdIn.body
    /\ rd' = AfterLoop(rd)
    /\ UNCHANGED rdIn

\* r.read(&mut b) returns Err: TimedOut or WouldBlock, or another error
read_Err(timeout) ==
    /\ rd.result = "reading"
    /\ rd' = IF timeout THEN AfterLoop([rd EXCEPT !.timed_out = TRUE])
             ELSE [rd EXCEPT !.result = "io error"]
    /\ UNCHANGED rdIn

RdNext ==
    \/ \E in \in RdInputs : read_http_message(in)
    \/ \E n \in ReadSizes(rdIn, rd.d) : read_Ok(n)
    \/ read_Ok0
    \/ \E timeout \in BOOLEAN : read_Err(timeout)

(***************************************************************************)
(*                           SPECIFICATIONS                                *)
(***************************************************************************)
vars == <<pipeVars, cbVars, rlVars, srvVars, cacheVars, poolVars, lbVars, mxVars, pxVars, rdVars>>

Init ==
    PipeInit /\ CBInit /\ RLInit /\ ServerInit /\ CacheInit /\ PoolInit /\ LBInit /\ MxInit /\ PxInit /\ RdInit

SpecPipeline == Init /\ [][PipeNext /\ UNCHANGED <<cbVars, rlVars, srvVars, cacheVars, poolVars, lbVars, mxVars, pxVars, rdVars>>]_vars

SpecCB == Init /\ [][CBNext /\ UNCHANGED <<pipeVars, rlVars, srvVars, cacheVars, poolVars, lbVars, mxVars, pxVars, rdVars>>]_vars

SpecRL == Init /\ [][RLNext /\ UNCHANGED <<pipeVars, cbVars, srvVars, cacheVars, poolVars, lbVars, mxVars, pxVars, rdVars>>]_vars

SpecServer == Init /\ [][ServerNext /\ UNCHANGED <<cbVars, rlVars, cacheVars, poolVars, lbVars, mxVars, pxVars, rdVars>>]_vars

SpecCache ==
    Init /\ [][CacheNext /\ UNCHANGED <<pipeVars, cbVars, rlVars, srvVars, poolVars, lbVars, mxVars, pxVars, rdVars>>]_vars

SpecLB ==
    Init /\ [][LBNext /\ UNCHANGED <<pipeVars, cbVars, rlVars, srvVars, cacheVars, poolVars, mxVars, pxVars, rdVars>>]_vars

SpecPool ==
    Init /\ [][PoolNext /\ UNCHANGED <<pipeVars, cbVars, rlVars, srvVars, cacheVars, lbVars, mxVars, pxVars, rdVars>>]_vars

SpecMetrics ==
    Init /\ [][MxNext /\ UNCHANGED <<pipeVars, cbVars, rlVars, srvVars, cacheVars, poolVars, lbVars, pxVars, rdVars>>]_vars

SpecProxy ==
    Init /\ [][PxNext /\ UNCHANGED <<pipeVars, cbVars, rlVars, srvVars, cacheVars, poolVars, lbVars, mxVars, rdVars>>]_vars

SpecReader ==
    Init /\ [][RdNext /\ UNCHANGED <<pipeVars, cbVars, rlVars, srvVars, cacheVars, poolVars, lbVars, mxVars, pxVars>>]_vars

(***************************************************************************)
(*                               CLAIMS                                    *)
(***************************************************************************)

\* Index of the first module whose request handler produced a response in the
\* last call of Pipeline::handle, or the last index when none did.
ShortCircuitIndex ==
    IF \E i \in 1..Len(lastOut) : lastOut[i] # NoResponse
    THEN CHOOSE i \in 1..Len(lastOut) :
             /\ lastOut[i] # NoResponse
             /\ \A j \in 1..(i - 1) : lastOut[j] = NoResponse
    ELSE Len(lastOut)

ExpectedCalls(k) ==
    [j \in 1..(2 * k) |->
        IF j <= k THEN [op |-> "handle", idx |-> j]
        ELSE [op |-> "on_response", idx |-> 2 * k - j + 1]]

\* C1: for a request handled on the sorted pipeline, with k the index of the
\* first module that produces a response (the last index if none does), the
\* module invocations are exactly the request handlers of modules 1..k in
\* ascending order followed by the post-processors of modules k..1 in
\* descending order, each once, and nothing of a module beyond k.
C1_OnionOrder ==
    (phase = "serving" /\ Len(lastOut) = Len(mods))
        => calls = ExpectedCalls(ShortCircuitIndex)

\* A request short-circuited by the second of three modules.
C1_Witness ==
    /\ phase = "serving"
    /\ Len(mods) = 3
    /\ Len(lastOut) = 3
    /\ lastOut[1] = NoResponse
    /\ lastOut[2] # NoResponse
    /\ Len(calls) = 4

NamesUnique ==
    \A i, j \in 1..Len(mods) : i # j => mods[i].name # mods[j].name

\* C8 as stated: after any sequence of add and override calls no two installed
\* modules have the same name.
C8_Original == NamesUnique

\* C8 amended: names are unique as long as no add was given the name of a
\* module installed at that moment (add itself never rejects a duplicate; the
\* script loader guards its adds with has_module).
C8_UniqueUnlessDuplicateAdded == (~dupAdd) => NamesUnique

\* Two modules installed after an override removed a third, no duplicate added.
C8_Witness ==
    /\ ~dupAdd
    /\ Len(mods) = 2
    /\ nextUid = 3
    /\ overridden # {}

IsSortedStable(ms) ==
    \A i, j \in 1..Len(ms) :
        i < j => \/ ms[i].prio < ms[j].prio
                 \/ (ms[i].prio = ms[j].prio /\ ms[i].uid < ms[j].uid)

\* C10: sort() leaves the same modules in ascending priority order, modules of
\* equal priority in their insertion order.
C10_SortStable ==
    [][(phase = "registering" /\ phase' = "serving")
          => (IsSortedStable(mods') /\ Range(mods') = Range(mods)
              /\ Len(mods') = Len(mods))]_vars

\* A sorted pipeline in which sort() moved a module ahead of two earlier-added
\* modules of equal priority.
C10_Witness ==
    /\ phase = "serving"
    /\ Len(mods) = 3
    /\ mods[1].uid = 3
    /\ mods[2].prio = mods[3].prio
    /\ mods[2].uid = 1

\* C2 as stated: while OPEN the breaker lets through at most one request per
\* recovery window, also when requests arrive concurrently.
C2_Original == openAdmits <= 1

\* C2 amended: a request that observes OPEN is let through only when
\* recovery_timeout has elapsed since the open-instant it read, and at most one
\* request per OPEN period wins the exchange to HALF_OPEN; requests that
\* observed OPEN concurrently with the winner are let through as well.
C2_SingleProbeTransition ==
    /\ probeWins <= 1
    /\ \A t \in CbThreads :
          (cbReq[t].pc \in {"h_cas", "backend"} /\ cbReq[t].st = STATE_OPEN)
              => cbReq[t].elapsed >= CbRecovery

\* The probe is at the backend, one request was rejected before the recovery
\* time and another observed OPEN while the probe went through.
C2_Witness ==
    /\ cbState = STATE_HALF_OPEN
    /\ probeWins = 1
    /\ \E t \in CbThreads : cbReq[t].status = 503
    /\ \E t \in CbThreads : cbReq[t].pc = "backend" /\ cbReq[t].st = STATE_OPEN

\* Requests of the window's address let through so far against the bound
\* burst + rate * W, W the time since the window opened.
WindowBound ==
    win # NoWindow => win.count <= rlCfg.burst + rlCfg.rps * (rlNow - win.start)

\* C3 as stated: in any window of W seconds the limiter lets through at most
\* burst + rate * W requests of one address, also across eviction and
\* re-creation of its bucket.
C3_Original == WindowBound

\* C3 amended: the bound holds when burst <= rate * BUCKET_STALE_SECS; with a
\* larger burst a bucket evicted as stale is re-created at full burst and the
\* bound is exceeded.
C3_WindowBoundWhenRefillCoversBurst ==
    rlCfg.burst <= rlCfg.rps * BUCKET_STALE_SECS => WindowBound

\* The window's address was let through again after its bucket was evicted
\* and re-created, with a burst the refill covers.
C3_Witness ==
    /\ rlCfg.registered
    /\ rlCfg.burst <= rlCfg.rps * BUCKET_STALE_SECS
    /\ win.ip = rlLast.ip
    /\ win.count = rlCfg.burst + 1
    /\ rlLast.admitted
    /\ rlLast.cleaned
    /\ crowd = 0

\* No request is being read or handled, by a worker or by the event loop.
NoRequestInFlight == \A c \in ConnIds : conn[c].st \notin Handling

\* C5: whenever no request is in flight, requests_total equals requests_ok +
\* requests_err, whatever paths the completed connections took.
C5_Original == NoRequestInFlight => requests_total = requests_ok + requests_err

\* Fates of a connection whose handler ran to its end.
Finished == {"answered", "relayed", "closed", "timed_out", "panicked"}

\* C7: once "Server stopped." is reported, every connection that was being
\* handled when shutdown was requested has run to its end, unless it was still
\* being handled when shutdown_timeout expired.
C7_Original ==
    srvPc = "stopped" =>
        \A c \in atShutdown : conn[c].st \in Finished \/ c \in slow

\* C9: when the pipeline holds a raw handler, Pipeline::handle is invoked for
\* no accepted connection, whatever path accepted it.
C9_Original == raw => \A c \in ConnIds : ~conn[c].piped

\* C4: every entry stored in the cache is the response to a GET request, has
\* status 200 and carries no X-Cache header.
C4_Original ==
    \A p \in CachePaths :
        cache[p].present =>
            /\ cache[p].method = "GET"
            /\ cache[p].resp.status = 200
            /\ ~cache[p].resp.xcache

\* C6 as stated: the idle queue never holds more than MAX_IDLE_PER_HOST
\* connections, and a put that finds MAX_IDLE_PER_HOST entries in the queue
\* leaves the queue unchanged.
C6_Original ==
    /\ Len(idle) <= MAX_IDLE_PER_HOST
    /\ (lastPut.called /\ lastPut.found >= MAX_IDLE_PER_HOST) => ~lastPut.changed

\* C6: the idle queue never holds more than MAX_IDLE_PER_HOST connections; a
\* put first discards the entries idle for MAX_IDLE_AGE or longer, and when
\* MAX_IDLE_PER_HOST entries remain it leaves the queue unchanged and drops
\* the stream, else it appends the stream to the entries that remain.
C6_BoundedAndFullAfterPrune ==
    /\ Len(idle) <= MAX_IDLE_PER_HOST
    /\ lastPut.called =>
           /\ lastPut.kept <= lastPut.found
           /\ IF lastPut.kept >= MAX_IDLE_PER_HOST
              THEN ~lastPut.changed /\ lastPut.left = lastPut.kept
              ELSE lastPut.changed /\ lastPut.left = lastPut.kept + 1

\* A put found the queue full of fresh entries and dropped the stream.
C6_Witness ==
    /\ lastPut.called
    /\ lastPut.found = MAX_IDLE_PER_HOST
    /\ lastPut.kept = MAX_IDLE_PER_HOST
    /\ ~lastPut.changed
    /\ Len(idle) = MAX_IDLE_PER_HOST

\* No module's request handler produced a response in the last call.
NoneProduced == \A i \in 1..Len(lastOut) : lastOut[i] = NoResponse

\* C11: when no module's request handler produces a response (an empty
\* pipeline included), Pipeline::handle returns the 500 "No handler" sentinel
\* after the request handler of every installed module ran once, in order, and
\* then the post-processor of every installed module ran once, in reverse.
C11_SentinelWhenNoneProduced ==
    (phase = "serving" /\ Len(lastOut) = Len(mods) /\ NoneProduced) =>
        /\ resp = Sentinel
        /\ resp.status = 500
        /\ calls = ExpectedCalls(Len(mods))
        /\ \A i \in 1..Len(mods) :
              Cardinality({j \in 1..Len(calls) :
                              calls[j] = [op |-> "on_response", idx |-> i]}) = 1

\* Three modules were asked, none answered, three post-processors ran.
C11_Witness ==
    /\ phase = "serving"
    /\ Len(mods) = 3
    /\ Len(lastOut) = 3
    /\ NoneProduced
    /\ Len(calls) = 6
    /\ resp = Sentinel

\* No request is inside the breaker's handle or on_response, or behind it.
CbQuiet == \A t \in CbThreads : cbReq[t].pc \in {"idle", "done"}

\* C12: once failure_threshold failures in a row have been counted the breaker
\* is OPEN, and no request is let through to the modules behind the breaker
\* less than recovery_timeout after the trip.
C12_Original ==
    /\ (CbQuiet /\ failures >= CbThreshold) => cbState = STATE_OPEN
    /\ \A t \in CbThreads : cbReq[t].due => cbReq[t].pc # "backend"

\* The steps of one request of worker t that C13 speaks of.
ProbeSteps(t) ==
    LET r == cbReq[t]
        r2 == cbReq'[t]
    IN  \* OPEN and the recovery time elapsed: not rejected, goes on to the exchange
        /\ (r.pc = "h_open" /\ r2.pc # "h_open" /\ cbNow - opened_at >= CbRecovery)
              => (r2.pc = "h_cas" /\ r2.status # 503)
        \* the exchange leaves an OPEN breaker HALF_OPEN and the request passes
        /\ (r.pc = "h_cas" /\ r2.pc # "h_cas")
              => (r2.pc = "backend" /\ (cbState = STATE_OPEN => cbState' = STATE_HALF_OPEN))
        \* a response below 500 resets the count, then closes the breaker
        /\ (r.pc = "r_load" /\ r2.pc # "r_load" /\ r.status < 500) => r2.pc = "r_clear"
        /\ (r.pc = "r_clear" /\ r2.pc # "r_clear") => (failures' = 0 /\ r2.pc = "r_close")
        /\ (r.pc = "r_close" /\ r2.pc # "r_close") => (cbState' = STATE_CLOSED /\ r2.pc = "done")
        \* a request that finds the breaker CLOSED is admitted
        /\ (r.pc \in {"idle", "done"} /\ r2.pc \notin {"idle", "done"} /\ cbState = STATE_CLOSED)
              => r2.pc = "backend"

\* C13: a request that finds the breaker OPEN with recovery_timeout elapsed is
\* let through and leaves the breaker HALF_OPEN; a response with status < 500
\* resets the failure count to zero and makes the breaker CLOSED, and a request
\* that finds it CLOSED is admitted.
C13_ProbeThenClosed == [][\A t \in CbThreads : ProbeSteps(t)]_vars

\* A probe admitted from OPEN was answered 200 while HALF_OPEN and the breaker
\* is CLOSED with no failure counted.
C13_Witness ==
    \E t \in CbThreads :
        /\ cbReq[t].pc = "done"
        /\ cbReq[t].status = 200
        /\ cbReq[t].st = STATE_HALF_OPEN
        /\ cbReq[t].elapsed >= CbRecovery
        /\ probeWins = 1
        /\ cbState = STATE_CLOSED
        /\ failures = 0

\* The refill since the bucket of ip was inserted is below one token.
RefillBelowOne(ip) == buckets[ip].present /\ rlCfg.rps * (rlNow - life[ip].born) < 1

\* C14: while the refill since the insertion of a client's bucket is below one
\* token, a request of that client is let through only among the first burst
\* and is answered 429 only when burst requests have been let through.
C14_BurstThenRefused ==
    \A ip \in RlIps :
        (RefillBelowOne(ip) /\ rlLast.ip = ip) =>
            /\ life[ip].passed <= rlCfg.burst
            /\ ~rlLast.admitted => life[ip].passed = rlCfg.burst

\* burst = 2 requests of a new client were let through and the next one, at the
\* same instant, was refused.
C14_Witness ==
    \E ip \in RlIps :
        /\ RefillBelowOne(ip)
        /\ rlCfg.rps = 1
        /\ rlCfg.burst = 2
        /\ rlLast.ip = ip
        /\ ~rlLast.admitted
        /\ life[ip].passed = 2
        /\ life[ip].born = rlNow

\* Worker w takes a GET for a path whose entry was stored from the 200 answer
\* to a GET and has not expired.
SecondGet(w) ==
    /\ creq[w].pc \in {"idle", "done"}
    /\ creq'[w].pc \notin {"idle"}
    /\ creq'[w] # creq[w]
    /\ creq'[w].req.method = "GET"
    /\ LET e == cache[creq'[w].req.path]
       IN  e.present /\ e.method = "GET" /\ e.resp.status = 200 /\ cacheNow < e.exp

\* The request is answered at once, without the later modules, and marked.
ServedFromCache(w) == creq'[w].pc = "done" /\ creq'[w].resp.xcache

\* The answer has the status and body of the stored response.
SameAsStored(w) ==
    LET e == cache[creq'[w].req.path]
    IN  /\ creq'[w].resp.status = e.resp.status
        /\ creq'[w].resp.body = e.resp.body

\* No step removes an entry that has not expired.
LiveEntriesStay ==
    \A p \in CachePaths :
        (cache[p].present /\ cacheNow < cache[p].exp) => cache'[p].present

\* C15: a GET for a path whose stored 200 answer has not expired is answered
\* from the cache, with the stored status and body and X-Cache: HIT, without
\* the later modules.
C15_Original ==
    [][/\ LiveEntriesStay
       /\ \A w \in CacheThreads :
              SecondGet(w) => (ServedFromCache(w) /\ SameAsStored(w))]_vars

\* C15 amended: the stored status and body are returned unless the request
\* carries an If-None-Match equal to the stored ETag; it is then answered 304
\* with an empty body, still from the cache with X-Cache: HIT.
C15_HitOrNotModified ==
    [][/\ LiveEntriesStay
       /\ \A w \in CacheThreads :
              SecondGet(w) =>
                  /\ ServedFromCache(w)
                  /\ LET rq == creq'[w].req
                         e == cache[rq.path]
                     IN  IF rq.inm # "none" /\ rq.inm = e.resp.etag
                         THEN creq'[w].resp.status = 304 /\ creq'[w].resp.body = ""
                         ELSE SameAsStored(w)]_vars

\* A GET for /new/a was answered from the entry another GET had stored.
C15_Witness ==
    \E w \in CacheThreads :
        /\ creq[w].pc = "done"
        /\ creq[w].req.method = "GET"
        /\ creq[w].req.path = P_new
        /\ creq[w].req.inm = "none"
        /\ creq[w].resp.xcache
        /\ creq[w].resp.status = 200
        /\ creq[w].resp.body = "page"
        /\ cache[P_new].present
        /\ cache[P_new].method = "GET"
        /\ cacheNow < cache[P_new].exp

\* The tickets 0..(idx - 1) whose request has set _backend_addr.
Assigned == {n \in 0..LbMaxRequests : lbAssigned[n] # NoAddr}

\* C16: while every backend has been reported healthy, the request that drew
\* the i-th value of idx (from 0) is assigned backends[i mod N], and N
\* requests with consecutive values are assigned N different backends.
C16_RoundRobinCycle ==
    (backends # <<>> /\ ~lbEverDown) =>
        LET N == Len(backends)
        IN  /\ \A i \in Assigned : lbAssigned[i] = backends[(i % N) + 1]
            /\ \A i \in Assigned :
                   (\A k \in 0..(N - 1) : i + k \in Assigned) =>
                       {lbAssigned[i + k] : k \in 0..(N - 1)} = Range(backends)

\* Four requests on three backends, all healthy: the fourth got the first
\* backend again.
C16_Witness ==
    /\ Len(backends) = 3
    /\ ~lbEverDown
    /\ Assigned = 0..3
    /\ lbAssigned[3] = backends[1]

\* C17: every accepted connection refused for overload, on the plain and on
\* the TLS acceptance path, is sent the 503 "Server overloaded" response; none
\* is closed without it.
C17_Original == \A c \in ConnIds : conn[c].st # "dropped"

\* C18: the client of a request during which a module panicked is answered;
\* its connection is never closed without a response.
C18_Original == \A c \in ConnIds : conn[c].st # "panicked"

\* C19: in HTTP mode every connection a worker has handled was written a
\* response before it was closed, also after a client read timeout and after
\* a panic of the handler.
C19_Original ==
    ~raw => \A c \in ConnIds : conn[c].st \notin {"timed_out", "panicked"}

\* C20: a worker leaves its loop only when the channel is closed, so while the
\* pool holds its sender every worker is alive, also one that has recovered
\* from a panic, and the panic leaves it receiving.
C20_WorkerSurvivesPanic ==
    /\ sender => \A w \in SrvWorkers : worker[w].pc # "exited"
    /\ \A w \in SrvWorkers : worker[w].pc = "exited" => chan = <<>>

\* A worker that has recovered from a panic is handling its next connection.
C20_Witness ==
    \E w \in SrvWorkers :
        /\ worker[w].recovered
        /\ worker[w].pc \in {"handle_h1", "pipeline"}
        /\ \E c \in ConnIds : conn[c].st = "panicked"
        /\ conn[worker[w].conn].st = "worker"

\* C21: the latency max gauge is at most 600 000 and every call of
\* record_latency has added at most 600 000 to the latency sum.
C21_Original ==
    /\ LATENCY_MAX_MS <= LatencyCap
    /\ LATENCY_SUM_MS <= mxCount * LatencyCap

\* C22: the cache never holds more than max_size entries.
C22_Original == Cardinality({p \in CachePaths : cache[p].present}) <= CacheMaxSize

\* The answer to the last request is the one its client's own requests alone
\* determine.
OwnHistoryDecides == rlLast.ip \in RlIps => rlLast.admitted = rlLast.solo

\* C23: whether a request is let through depends only on the request times of
\* its own client address and on (rate, burst).
C23_Original == OwnHistoryDecides

\* C23 amended: it does when the refill over the staleness period covers the
\* burst; a bucket the cleanup removes is then as full as one inserted anew.
C23_OwnHistoryWhenRefillCoversBurst ==
    rlCfg.burst <= rlCfg.rps * BUCKET_STALE_SECS => OwnHistoryDecides

\* With rps = 1, a client let through before is let through again by a request
\* in which the cleanup removed its bucket and inserted a new one.
C23_Witness ==
    \E ip \in RlIps :
        /\ rlCfg.rps = 1
        /\ rlLast.ip = ip
        /\ rlLast.cleaned
        /\ rlLast.admitted
        /\ win.ip = ip
        /\ win.count >= 2
        /\ life[ip].born = rlNow
        /\ life[ip].passed = 1

\* The steps of worker t that C24 speaks of.
ClosedSteps(t) ==
    LET r == cbReq[t]
        r2 == cbReq'[t]
    IN  \* a response below 500 finds the breaker CLOSED: the count is reset
        /\ (r.pc = "r_clear" /\ r2.pc # "r_clear" /\ r.st = STATE_CLOSED) => failures' = 0
        \* the exchange from CLOSED to OPEN is made for a failure that brought
        \* the count, reset by every response below 500, to the threshold
        /\ (r.pc = "r_cas_closed" /\ r2.pc = "r_opened") =>
               (r.status >= 500 /\ r.count >= CbThreshold)

\* C24: a response with status < 500 resets the failure count to zero, and the
\* breaker goes from CLOSED to OPEN only in the on_response of a failure that
\* counted failure_threshold failures since the last reset.
C24_ResetThenThreshold ==
    [][/\ \A t \in CbThreads : ClosedSteps(t)
       /\ (cbState = STATE_CLOSED /\ cbState' = STATE_OPEN) =>
              \E t \in CbThreads : cbReq[t].pc = "r_cas_closed" /\ cbReq'[t].pc = "r_opened"
       /\ failures' \in {0, failures, failures + 1}
       /\ failures' = failures + 1 =>
              \E t \in CbThreads : cbReq[t].pc = "r_count" /\ cbReq'[t].count = failures']_vars

\* A failure that counted exactly the threshold has opened the breaker, the
\* other worker having had a success that reset the count.
C24_Witness ==
    \E t \in CbThreads, u \in CbThreads :
        /\ cbReq[t].pc = "r_opened"
        /\ cbReq[t].st = STATE_CLOSED
        /\ cbReq[t].count = CbThreshold
        /\ cbState = STATE_OPEN
        /\ cbTrips = 0
        /\ cbReq[u].pc = "done"
        /\ cbReq[u].status = 200

\* C25: after a failure observed in HALF_OPEN has returned the breaker to OPEN,
\* no request is let through to the modules behind the breaker for a full
\* recovery_timeout, and opened_at is never older than that trip once its
\* on_response has ended.
C25_Original ==
    /\ \A t \in CbThreads : cbReq[t].dueHalf => cbReq[t].pc # "backend"
    /\ (CbQuiet /\ tripAt # NoTrip) => opened_at >= tripAt

\* C26: the breaker leaves OPEN only for HALF_OPEN, by the exchange of a request
\* that read an elapsed time of at least recovery_timeout; no response closes
\* an OPEN breaker.
C26_Original ==
    [][cbState = STATE_OPEN =>
          \/ cbState' = STATE_OPEN
          \/ /\ cbState' = STATE_HALF_OPEN
             /\ \E t \in CbThreads :
                    /\ cbReq[t].pc = "h_cas"
                    /\ cbReq'[t].pc = "backend"
                    /\ cbReq[t].elapsed >= CbRecovery]_vars

\* C27: once the drain loop has ended on the deadline, Server::run returns
\* without waiting for the connections the workers are still handling.
C27_Original ==
    (/\ srvPc = "join"
     /\ deadline
     /\ \E w \in SrvWorkers : worker[w].pc \in {"handle_h1", "pipeline"})
        => ENABLED server_stopped

\* C28: the active-connection gauge never exceeds max_connections.
C28_Original == ACTIVE_CONNS <= SrvMaxConnections

\* C29: a GET that missed the cache and whose response is stored is stored
\* under the key its lookup used, so that key then holds an entry.
C29_Original ==
    [][\A w \in CacheThreads :
          (/\ creq[w].pc = "resp"
           /\ creq'[w].pc = "done"
           /\ creq[w].req.method = "GET"
           /\ creq[w].resp.status = 200
           /\ ~creq[w].resp.xcache)
              => (creq[w].req.path = creq[w].key /\ cache'[creq[w].key].present)]_vars

\* C30: a response served from the cache is gzip-encoded only if the request it
\* answers accepts gzip, and no stored copy is gzip-encoded.
C30_Original ==
    /\ \A w \in CacheThreads :
           (creq[w].pc = "done" /\ creq[w].resp.xcache /\ creq[w].resp.encoding = "gzip")
               => creq[w].req.gz
    /\ \A p \in CachePaths : cache[p].present => cache[p].resp.encoding # "gzip"

\* C31: a lookup (Cache::handle of a GET) that finds an entry at or after its
\* expiry instant does not serve it: the entry is removed and the request
\* continues down the pipeline; a lookup answers from the cache only strictly
\* before the expiry instant of the entry it found.
C31_ExpiredNeverServed ==
    [][\A w \in CacheThreads :
          (/\ creq[w].pc \in {"idle", "done"}
           /\ creq'[w] # creq[w]
           /\ creq'[w].req.method = "GET")
              => LET e == cache[creq'[w].key]
                 IN  /\ (e.present /\ cacheNow >= e.exp)
                            => /\ creq'[w].pc = "miss"
                               /\ ~cache'[creq'[w].key].present
                     /\ creq'[w].pc = "done"
                            => e.present /\ cacheNow < e.exp]_vars

C31_Witness ==
    \E w \in CacheThreads :
        /\ creq[w].pc = "miss"
        /\ creq[w].expired
        /\ cacheNow = CacheTtl
        /\ ~cache[creq[w].key].present

\* C32: the step of RoundRobin::handle that sets _backend_addr sets the first
\* backend, in the cyclic order of the configured list from the start index,
\* that the health map reported healthy when the scan asked about it: every
\* backend before it in that order was reported down.  It sets the backend at
\* the start index after the scan only when every backend of the list was
\* reported down.
C32_FirstReportedHealthy ==
    [][\A t \in LbThreads :
          (lbReq[t].pc = "scan" /\ lbReq'[t].pc = "done")
              => LET r == lbReq[t]
                     a == lbReq'[t].addr
                     N == Len(backends)
                 IN  /\ r.start = r.n % N
                     /\ r.refused = {backends[((r.start + k) % N) + 1] :
                                         k \in 0..(r.offset - 1)}
                     /\ IF r.offset < N
                        THEN /\ a = backends[((r.start + r.offset) % N) + 1]
                             /\ HEALTH[a]
                        ELSE /\ a = backends[r.start + 1]
                             /\ r.refused = Range(backends)]_vars

\* One request was given the third backend of its order after two were
\* reported down, another fell back to its start backend after all were.
C32_Witness ==
    \E t, u \in LbThreads :
        /\ Len(backends) = 3
        /\ lbReq[t].pc = "done" /\ lbReq[t].offset = 2
        /\ lbReq[t].addr = BackendAt(lbReq[t].start, 2)
        /\ lbReq[t].start = 1
        /\ lbReq[u].pc = "done" /\ lbReq[u].offset = 3
        /\ lbReq[u].addr = BackendAt(lbReq[u].start, 0)

\* The step of worker w is its call of pool.get.
PoolGetStep(w) ==
    /\ pxReq[w].pc \in {"idle", "done"}
    /\ pxReq'[w].got \in {"pool", "connect", "failed"}
    /\ \/ pxReq'[w] # pxReq[w]
       \/ pxReq' = pxReq /\ pxIdle' # pxIdle

\* The idle entry at position i is young enough and its backend end is open.
PassesTests(i) ==
    /\ pxNow - pxIdle[i].created <= MAX_IDLE_AGE
    /\ pxPeer[pxIdle[i].stream] = "open"

\* C33: a stream that get takes from the idle queue has been idle for at most
\* MAX_IDLE_AGE and its backend end is open (the probe reports would-block);
\* the entries popped before it failed one of the two tests and are discarded:
\* they are neither in the queue nor held afterwards.  A fresh connection is
\* opened, or tried, only when no entry of the queue passes the tests, and the
\* queue is then empty.
C33_OnlyUsableReturned ==
    [][\A w \in PxThreads :
          PoolGetStep(w) =>
              LET N == Len(pxIdle)
                  Discarded(from) ==
                      \A j \in from..N :
                          /\ ~PassesTests(j)
                          /\ \A k \in 1..Len(pxIdle') :
                                 pxIdle'[k].stream # pxIdle[j].stream
                          /\ \A v \in PxThreads :
                                 pxReq'[v].stream # pxIdle[j].stream
              IN  IF pxReq'[w].got = "pool"
                  THEN \E i \in 1..N :
                          /\ pxIdle[i].stream = pxReq'[w].stream
                          /\ PassesTests(i)
                          /\ pxReq'[w].age <= MAX_IDLE_AGE
                          /\ pxIdle' = SubSeq(pxIdle, 1, i - 1)
                          /\ Discarded(i + 1)
                  ELSE /\ Discarded(1)
                       /\ pxIdle' = <<>>
                       /\ pxOpened' = pxOpened \/ pxReq'[w].stream = pxOpened']_vars

\* A worker was given a stream idle for exactly MAX_IDLE_AGE while the other
\* worker's get found only a closed one and opened a fresh connection.
C33_Witness ==
    \E w, v \in PxThreads :
        /\ pxReq[w].pc = "write"
        /\ pxReq[w].got = "pool"
        /\ pxReq[w].age = MAX_IDLE_AGE
        /\ pxReq[v].pc = "write"
        /\ pxReq[v].got = "connect"
        /\ \E s \in PxStreams : s <= pxOpened /\ pxPeer[s] = "closed"

\* The streams workers hold, and the streams of the idle queue.
HeldBy(w) == IF pxReq[w].pc \in {"write", "read"} THEN {pxReq[w].stream} ELSE {}
Queued == {pxIdle[i].stream : i \in 1..Len(pxIdle)}

\* C34: under any interleaving of the gets and puts of concurrent workers a
\* stream has at most one owner: no two workers hold the same stream, a stream
\* in the idle queue is held by no worker, and no stream is queued twice; so a
\* stream a get has returned is not returned again before it was put back.
C34_OneOwner ==
    /\ \A w, v \in PxThreads : w # v => HeldBy(w) \cap HeldBy(v) = {}
    /\ \A w \in PxThreads : HeldBy(w) \cap Queued = {}
    /\ \A i, j \in 1..Len(pxIdle) : i # j => pxIdle[i].stream # pxIdle[j].stream
    /\ \A w \in PxThreads : HeldBy(w) \subseteq 1..pxOpened
    /\ Queued \subseteq 1..pxOpened

\* One stream has gone from a worker to the pool and to the other worker,
\* while the first worker holds a different one.
C34_Witness ==
    \E w, v \in PxThreads :
        /\ w # v
        /\ pxReq[w].pc = "read" /\ pxReq[w].got = "pool" /\ pxReq[w].stream = 1
        /\ pxReq[v].pc = "read" /\ pxReq[v].stream = 2
        /\ pxIdle = <<>>

\* Some Connection field of the answer has the value v, whatever its case.
HasConnection(a, v) ==
    \E i \in 1..Len(a.connection) :
        \/ a.connection[i] = v
        \/ (a.connection[i] = "Close" /\ v = "close")
        \/ (a.connection[i] = "Keep-Alive" /\ v = "keep-alive")

\* C35: ProxyCore::handle has put the backend stream back into the pool only
\* when the response was read and parsed and keep-alive holds: for HTTP/1.0 a
\* Connection: keep-alive is present, for HTTP/1.1 no Connection: close is;
\* after a write error, a timeout, a read error or a parse failure it has not.
C35_Original ==
    \A w \in PxThreads :
        (pxReq[w].pc = "done" /\ pxReq[w].put) =>
            LET a == pxReq[w].answer
            IN  /\ a.read = "ok"
                /\ a.parsed
                /\ IF a.version = "HTTP/1.0"
                   THEN HasConnection(a, "keep-alive")
                   ELSE ~HasConnection(a, "close")

\* Connections being handled by a worker or as an HTTP/2 connection of the
\* event loop, the two places that touch the gauge.
BeingHandled ==
    {c \in ConnIds :
        \/ conn[c].st = "worker"
        \/ conn[c].kind = "h2" /\ conn[c].st \in {"ev_idle", "ev_req"}}

\* C36: the active-connection gauge equals the number of connections being
\* handled; in particular it is zero when none is.
C36_Original == ACTIVE_CONNS = Cardinality(BeingHandled)

\* No call of record_latency is in progress.
MxQuiet == \A t \in MxThreads : mxReq[t].pc = "idle"

C38_Original ==
    (rd.result = "Ok" /\ rdIn.framing = "none" /\ ~rd.timed_out)
        => rd.d = rdIn.hdr + rdIn.body

\* C39: read_http_message answers "headers too large" only for a message
\* whose header section, the blank line included, is longer than
\* MAX_HEADER_SIZE, however the bytes are split across the reads and whatever
\* buf_size is.
C39_Original ==
    rd.result = "headers too large" => rdIn.hdr > MAX_HEADER_SIZE

\* C40 as stated: no installed module has a name in the overridden set.
C40_Original ==
    \A i \in 1..Len(mods) : mods[i].name \notin overridden

\* C40: after any sequence of add and override calls, an installed module has a
\* name in the overridden set only if it is a module that names itself in its
\* own overrides(); add installs nothing under a name that is already
\* overridden, and override(name) removes every installed module of that name.
C40_NoOverriddenUnlessSelf ==
    \A i \in 1..Len(mods) :
        mods[i].name \in overridden => mods[i].selfOverride

\* A module was installed and then removed by an override of its name, and a
\* module of another name is installed.
C40_Witness ==
    /\ overridden # {}
    /\ mods # <<>>
    /\ nextUid > Len(mods)
    /\ \A i \in 1..Len(mods) : mods[i].name \notin overridden
    /\ \E i \in 1..Len(mods) : mods[i].uid = nextUid
====
